---- MODULE Spec2Model ----
(***************************************************************************)
(* Survey auto-filler: the row drivers (fill_one, process_single_row,      *)
(* run_one_row), their orchestrators (main, run), the field resolver       *)
(* (get_val) and the per-field page fillers.                               *)
(*                                                                         *)
(* Strings are sequences of one-character strings, so that trimming and    *)
(* comparison are computed rather than assumed.                            *)
(***************************************************************************)
EXTENDS Integers, Sequences, FiniteSets, TLC

VARIABLES
    \* ---- get_val (src/utils.py) ----
    gv_pc, gv_row, gv_hs, gv_default, gv_result,
    \* ---- fill_one / main (src/main.py) ----
    fo_pc, fo_row, fo_step, fo_sig, fo_stuck, fo_page, fo_handled,
    fo_exit, fo_qsChanged, fo_sawThanks, fo_browser, fo_same, fo_stayed, fo_nproc, fo_iterClicks,
    \* ---- run / process_single_row / run_one_row (src/main_auto_fill.py, src/main.py) ----
    rn_variant, rn_badEntry, rn_manual, rn_startUrl, rn_pc, rn_idx, rn_open, rn_page, rn_did,
    rn_step, rn_clicked, rn_exit, rn_driven, rn_raised,
    \* ---- per-field page fillers (src/main_autofill.py, src/main_auto_fill.py,
    \*      src/processor.py, src/helpers_generic.py) ----
    fp_pc, fp_handler, fp_row, fp_entry, fp_page, fp_typed, fp_selected,
    fp_actions, fp_log, fp_next,
    \* ---- multi-choice cells: parse_multi, resolve_checkboxes and the checkbox
    \*      fillers (src/main_auto_fill.py, src/plan_actions.py, src/processor.py,
    \*      src/helpers_generic.py) ----
    ck_pc, ck_fn, ck_cell, ck_delim, ck_map, ck_entry, ck_page, ck_tokens, ck_sel,
    ck_unmatched, ck_checked, ck_first, ck_round, ck_typed, ck_actions, ck_log,
    \* ---- type_like_human (src/main_auto_fill.py, src/main.py) ----
    ty_pc, ty_variant, ty_text, ty_before, ty_plan, ty_value, ty_events, ty_result,
    \* ---- choose_combobox_by_text (src/main_auto_fill.py) ----
    cb_pc, cb_text, cb_items, cb_attempt, cb_clicked, cb_verified, cb_result,
    \* ---- the field loop of a page fill: fill_current_page (src/main_auto_fill.py), process_page (src/processor.py) ----
    pf_pc, pf_variant, pf_debug, pf_fields, pf_i, pf_attempted, pf_actions, pf_log,
    \* ---- classification of a heading against QUESTION_MAP (src/processor.py, src/mappings.py) ----
    qm_pc, qm_heading, qm_first, qm_second,
    \* ---- wait_no_overlay and the first click ----
    ov_pc, ov_prim, ov_visible, ov_polls, ov_clicked, ov_under,
    \* ---- build_action_plan ----
    pl_pc, pl_section, pl_n, pl_plan,
    \* ---- the composite name question (src/survey_flow.py, src/processor.py) ----
    nm_pc, nm_handler, nm_cols, nm_fields,
    \* ---- click_next_and_wait (src/main.py) ----
    nw_pc, nw_i, nw_page, nw_pending, nw_clicks,
    \* ---- open_combobox ----
    oc_pc, oc_debug, oc_attempt, oc_tried, oc_seen, oc_result, oc_log,
    \* ---- row selection of run() ----
    rs_pc, rs_variant, rs_n, rs_opts, rs_indices, rs_error, rs_k, rs_driven

gvVars == <<gv_pc, gv_row, gv_hs, gv_default, gv_result>>
foVars == <<fo_pc, fo_row, fo_step, fo_sig, fo_stuck, fo_page, fo_handled,
            fo_exit, fo_qsChanged, fo_sawThanks, fo_browser, fo_same, fo_stayed, fo_nproc,
            fo_iterClicks>>
rnVars == <<rn_variant, rn_badEntry, rn_manual, rn_startUrl, rn_pc, rn_idx, rn_open, rn_page, rn_did,
            rn_step, rn_clicked, rn_exit, rn_driven, rn_raised>>
fpVars == <<fp_pc, fp_handler, fp_row, fp_entry, fp_page, fp_typed, fp_selected,
            fp_actions, fp_log, fp_next>>
ckVars == <<ck_pc, ck_fn, ck_cell, ck_delim, ck_map, ck_entry, ck_page, ck_tokens, ck_sel,
            ck_unmatched, ck_checked, ck_first, ck_round, ck_typed, ck_actions, ck_log>>
tyVars == <<ty_pc, ty_variant, ty_text, ty_before, ty_plan, ty_value, ty_events, ty_result>>
cbVars == <<cb_pc, cb_text, cb_items, cb_attempt, cb_clicked, cb_verified, cb_result>>
pfVars == <<pf_pc, pf_variant, pf_debug, pf_fields, pf_i, pf_attempted, pf_actions, pf_log>>
qmVars == <<qm_pc, qm_heading, qm_first, qm_second>>
ovVars == <<ov_pc, ov_prim, ov_visible, ov_polls, ov_clicked, ov_under>>
plVars == <<pl_pc, pl_section, pl_n, pl_plan>>
nmVars == <<nm_pc, nm_handler, nm_cols, nm_fields>>
nwVars == <<nw_pc, nw_i, nw_page, nw_pending, nw_clicks>>
ocVars == <<oc_pc, oc_debug, oc_attempt, oc_tried, oc_seen, oc_result, oc_log>>
rsVars == <<rs_pc, rs_variant, rs_n, rs_opts, rs_indices, rs_error, rs_k, rs_driven>>
vars == <<gvVars, foVars, rnVars, fpVars, ckVars, tyVars, cbVars, pfVars, qmVars, ovVars, plVars, nmVars, nwVars, ocVars, rsVars>>

\* what each component leaves alone
notGv == <<foVars, rnVars, fpVars, ckVars, tyVars, cbVars, pfVars, qmVars, ovVars, plVars, nmVars, nwVars, ocVars, rsVars>>
notFo == <<gvVars, rnVars, fpVars, ckVars, tyVars, cbVars, pfVars, qmVars, ovVars, plVars, nmVars, nwVars, ocVars, rsVars>>
notRn == <<gvVars, foVars, fpVars, ckVars, tyVars, cbVars, pfVars, qmVars, ovVars, plVars, nmVars, nwVars, ocVars, rsVars>>
notFp == <<gvVars, foVars, rnVars, ckVars, tyVars, cbVars, pfVars, qmVars, ovVars, plVars, nmVars, nwVars, ocVars, rsVars>>
notCk == <<gvVars, foVars, rnVars, fpVars, tyVars, cbVars, pfVars, qmVars, ovVars, plVars, nmVars, nwVars, ocVars, rsVars>>
notTy == <<gvVars, foVars, rnVars, fpVars, ckVars, cbVars, pfVars, qmVars, ovVars, plVars, nmVars, nwVars, ocVars, rsVars>>
notCb == <<gvVars, foVars, rnVars, fpVars, ckVars, tyVars, pfVars, qmVars, ovVars, plVars, nmVars, nwVars, ocVars, rsVars>>
notPf == <<gvVars, foVars, rnVars, fpVars, ckVars, tyVars, cbVars, qmVars, ovVars, plVars, nmVars, nwVars, ocVars, rsVars>>
notQm == <<gvVars, foVars, rnVars, fpVars, ckVars, tyVars, cbVars, pfVars, ovVars, plVars, nmVars, nwVars, ocVars, rsVars>>
notOv == <<gvVars, foVars, rnVars, fpVars, ckVars, tyVars, cbVars, pfVars, qmVars, plVars, nmVars, nwVars, ocVars, rsVars>>
notPl == <<gvVars, foVars, rnVars, fpVars, ckVars, tyVars, cbVars, pfVars, qmVars, ovVars, nmVars, nwVars, ocVars, rsVars>>
notNm == <<gvVars, foVars, rnVars, fpVars, ckVars, tyVars, cbVars, pfVars, qmVars, ovVars, plVars, nwVars, ocVars, rsVars>>
notNw == <<gvVars, foVars, rnVars, fpVars, ckVars, tyVars, cbVars, pfVars, qmVars, ovVars, plVars, nmVars, ocVars, rsVars>>
notOc == <<gvVars, foVars, rnVars, fpVars, ckVars, tyVars, cbVars, pfVars, qmVars, ovVars, plVars, nmVars, nwVars, rsVars>>
notRs == <<gvVars, foVars, rnVars, fpVars, ckVars, tyVars, cbVars, pfVars, qmVars, ovVars, plVars, nmVars, nwVars, ocVars>>

(***************************************************************************)
(* Bounds of the model                                                     *)
(***************************************************************************)
MaxLen == 2
MaxCands == 2
NumRows == 2
MaxDid == 2
MaxStepShown == 2
MaxCellLen == 3
MaxRounds == 2
MaxFields == 2
MaxHeadLen == 3

(***************************************************************************)
(* Strings                                                                 *)
(***************************************************************************)
Chars == {" ", "x", "X"}

RECURSIVE SeqsUpTo(_, _)
SeqsUpTo(S, n) ==
    IF n = 0 THEN {<<>>}
    ELSE LET shorter == SeqsUpTo(S, n - 1)
         IN  shorter \cup {Append(s, c) : s \in {t \in shorter : Len(t) = n - 1}, c \in S}

Strs == SeqsUpTo(Chars, MaxLen)

RECURSIVE lstrip(_)
lstrip(s) == IF s # <<>> /\ Head(s) = " " THEN lstrip(Tail(s)) ELSE s

RECURSIVE rstrip(_)
rstrip(s) ==
    IF s # <<>> /\ s[Len(s)] = " " THEN rstrip(SubSeq(s, 1, Len(s) - 1)) ELSE s

\* str.strip(): leading and trailing whitespace removed, inner whitespace kept
strip(s) == rstrip(lstrip(s))

\* re.sub(r"\s+", " ", s): every run of whitespace becomes one space
RECURSIVE collapse(_)
collapse(s) ==
    IF Len(s) < 2 THEN s
    ELSE IF s[1] = " " /\ s[2] = " " THEN collapse(Tail(s))
    ELSE <<s[1]>> \o collapse(Tail(s))

\* norm_space / norm: whitespace collapsed, then trimmed
norm_space(s) == strip(collapse(s))

LowerChar(c) ==
    CASE c = "X" -> "x"
      [] c = "Y" -> "y"
      [] c = "N" -> "n"
      [] c = "O" -> "o"
      [] c = "A" -> "a"
      [] OTHER -> c

\* str.lower()
lower(s) == [i \in 1..Len(s) |-> LowerChar(s[i])]

norm_case(s) == lower(norm_space(s))

\* needle in hay
IsSubstr(needle, hay) ==
    \E i \in 0..(Len(hay) - Len(needle)) : SubSeq(hay, i + 1, i + Len(needle)) = needle

\* ilike(hay, needle): needle.lower() in hay.lower()
ilike(hay, needle) == IsSubstr(lower(needle), lower(hay))

(***************************************************************************)
(* get_val                                                                 *)
(***************************************************************************)
RowKeys == {"h1", "h2"}
Headers == RowKeys \cup {"h3"}
Rows == UNION {[D -> Strs] : D \in SUBSET RowKeys}
Defaults == {<<>>, <<"x", "x">>}

\* get_val returning the raw cell
get_val_untrimmed(row, hs, default) ==
    LET hit == {i \in 1..Len(hs) : hs[i] \in DOMAIN row /\ strip(row[hs[i]]) # <<>>}
    IN  IF hit = {} THEN default
        ELSE row[hs[CHOOSE i \in hit : \A j \in hit : i <= j]]

\* for h in possible_headers: if h in row and str(row[h]).strip(): return it stripped
RECURSIVE get_val(_, _, _)
get_val(row, hs, default) ==
    IF hs = <<>> THEN default
    ELSE LET h == Head(hs)
         IN  IF h \in DOMAIN row /\ strip(row[h]) # <<>>
             THEN strip(row[h])
             ELSE get_val(row, Tail(hs), default)

IdleGv ==
    /\ gv_pc = "idle"
    /\ gv_row = <<>>
    /\ gv_hs = <<>>
    /\ gv_default = <<>>
    /\ gv_result = <<>>

InitGv ==
    /\ gv_pc = "call"
    /\ gv_row \in Rows
    /\ gv_hs \in SeqsUpTo(Headers, MaxCands)
    /\ gv_default \in Defaults
    /\ gv_result = <<>>

GetVal ==
    /\ gv_pc = "call"
    /\ gv_result' = get_val(gv_row, gv_hs, gv_default)
    /\ gv_pc' = "ret"
    /\ UNCHANGED <<gv_row, gv_hs, gv_default>>
    /\ UNCHANGED notGv

(***************************************************************************)
(* fill_one and main (src/main.py, the stuck-detecting version)            *)
(***************************************************************************)
MaxSteps == 120
StuckLimit == 3

\* The visible question headings a page may show, as raw inner texts.
FoQuestionLists == {<<>>, << <<"x">> >>, << <<" ", "x">> >>, << <<"x", "x">> >>, << <<>> >>}

\* A page: its question headings, whether the Next button is visible, whether
\* the Thank-you text is visible, and whether the headings can be read.
FoPages == [qs : FoQuestionLists, next : BOOLEAN, thanks : BOOLEAN, readable : BOOLEAN]

SigSep == <<" ", "|", "|", " ">>

RECURSIVE Join(_)
Join(parts) ==
    IF parts = <<>> THEN <<>>
    ELSE IF Len(parts) = 1 THEN parts[1]
    ELSE parts[1] \o SigSep \o Join(Tail(parts))

\* " || ".join of the stripped heading texts; "" when reading them raises
page_signature(page) ==
    IF page.readable
    THEN Join([i \in 1..Len(page.qs) |-> strip(page.qs[i])])
    ELSE <<>>

\* process_page can act only on a question section whose heading it can read
CanHandle(page) == page.readable /\ page.qs # <<>>

IdleFo ==
    /\ fo_pc = "idle"
    /\ fo_row = 0
    /\ fo_step = 0
    /\ fo_sig = <<>>
    /\ fo_stuck = 0
    /\ fo_page = [qs |-> <<>>, next |-> FALSE, thanks |-> FALSE, readable |-> TRUE]
    /\ fo_handled = FALSE
    /\ fo_exit = "none"
    /\ fo_qsChanged = FALSE
    /\ fo_sawThanks = FALSE
    /\ fo_browser = {}
    /\ fo_same = 0
    /\ fo_stayed = FALSE
    /\ fo_nproc = 0
    /\ fo_iterClicks = 0

InitFo ==
    /\ fo_pc = "launch"
    /\ fo_row = 0
    /\ fo_step = 0
    /\ fo_sig = <<>>
    /\ fo_stuck = 0
    /\ fo_page = [qs |-> <<>>, next |-> FALSE, thanks |-> FALSE, readable |-> TRUE]
    /\ fo_handled = FALSE
    /\ fo_exit = "none"
    /\ fo_qsChanged = FALSE
    /\ fo_sawThanks = FALSE
    /\ fo_browser = {}
    /\ fo_same = 0
    /\ fo_stayed = FALSE
    /\ fo_nproc = 0
    /\ fo_iterClicks = 0

\* main: browser = launch(); page = browser.new_page().  fo_browser holds the
\* row that was about to be driven when the open page was created.
MainLaunch ==
    /\ fo_pc = "launch"
    /\ fo_browser' = {fo_row}
    /\ fo_pc' = "goto"
    /\ UNCHANGED <<fo_row, fo_step, fo_sig, fo_stuck, fo_page, fo_handled,
                   fo_exit, fo_qsChanged, fo_sawThanks, fo_same, fo_stayed, fo_nproc, fo_iterClicks>>
    /\ UNCHANGED notFo

\* fill_one: goto(SURVEY_URL); wait_for_selector('#survey-canvas'); stuck_ticks = 0
FillOneGoto ==
    /\ fo_pc = "goto"
    /\ \E p \in FoPages :
        /\ fo_page' = p
    /\ fo_step' = 0
    /\ fo_stuck' = 0
    /\ fo_exit' = "none"
    /\ fo_qsChanged' = FALSE
    /\ fo_sawThanks' = FALSE
    /\ fo_same' = 0
    /\ fo_stayed' = FALSE
    /\ fo_nproc' = 0
    /\ fo_iterClicks' = 0
    /\ fo_pc' = "loop"
    /\ UNCHANGED <<fo_row, fo_sig, fo_handled, fo_browser>>
    /\ UNCHANGED notFo

\* the navigation or the 15 s wait for the survey canvas times out
FillOneGotoRaise ==
    /\ fo_pc = "goto"
    /\ fo_exit' = "timeout"
    /\ fo_pc' = "crashed"
    /\ UNCHANGED <<fo_row, fo_step, fo_sig, fo_stuck, fo_page, fo_handled,
                   fo_qsChanged, fo_sawThanks, fo_browser, fo_same, fo_stayed, fo_nproc, fo_iterClicks>>
    /\ UNCHANGED notFo

\* a loop without its ceiling
LoopForever(step) == TRUE

\* range(0, 120): the loop body runs for step = 0..119
LoopContinues(step) == step < MaxSteps

\* for step in range(0, 120): sig = page_signature(page)
FillOneLoop ==
    /\ fo_pc = "loop"
    /\ IF LoopContinues(fo_step)
       THEN /\ fo_sig' = page_signature(fo_page)
            /\ fo_pc' = "process"
            /\ fo_iterClicks' = 0
            /\ UNCHANGED fo_exit
       ELSE /\ fo_exit' = "ceiling"
            /\ fo_pc' = "rowdone"
            /\ UNCHANGED <<fo_sig, fo_iterClicks>>
    /\ UNCHANGED <<fo_row, fo_step, fo_stuck, fo_page, fo_handled,
                   fo_qsChanged, fo_sawThanks, fo_browser, fo_same, fo_stayed, fo_nproc>>
    /\ UNCHANGED notFo

\* handled = process_page(page, row); acting on a control may change the page
FillOneProcess ==
    /\ fo_pc = "process"
    /\ \E h \in (IF CanHandle(fo_page) THEN BOOLEAN ELSE {FALSE}) :
        /\ fo_handled' = h
        /\ \E p \in (IF h THEN FoPages ELSE {fo_page}) :
            /\ fo_page' = p
            /\ fo_qsChanged' = (fo_qsChanged \/ p.qs # fo_page.qs \/ p.readable # fo_page.readable)
    /\ fo_nproc' = fo_nproc + 1
    /\ fo_pc' = "advance"
    /\ UNCHANGED <<fo_row, fo_step, fo_sig, fo_stuck, fo_exit, fo_sawThanks, fo_browser,
                   fo_same, fo_stayed, fo_iterClicks>>
    /\ UNCHANGED notFo

\* an interaction inside process_page raises (process_page catches nothing)
FillOneProcessRaise ==
    /\ fo_pc = "process"
    /\ CanHandle(fo_page)
    /\ fo_exit' = "raised"
    /\ fo_pc' = "crashed"
    /\ UNCHANGED <<fo_row, fo_step, fo_sig, fo_stuck, fo_page, fo_handled,
                   fo_qsChanged, fo_sawThanks, fo_browser, fo_same, fo_stayed, fo_nproc, fo_iterClicks>>
    /\ UNCHANGED notFo

\* click_next (also reached through pass_gate_if_present): click only a visible
\* Next; the click moves to a different page (which may look like the one
\* before) or leaves the page where it is.  fo_stayed: some advance since the
\* stuck counter was last 0 did not move to a different page.
FillOneClickNext ==
    /\ fo_pc = "advance"
    /\ IF fo_page.next
       THEN \E moved \in BOOLEAN :
              /\ \E p \in (IF moved THEN FoPages ELSE {fo_page}) :
                    /\ fo_page' = p
                    /\ fo_qsChanged' = (fo_qsChanged \/ p.qs # fo_page.qs
                                                      \/ p.readable # fo_page.readable)
              /\ fo_stayed' = (fo_stayed \/ ~moved)
       ELSE /\ fo_stayed' = TRUE
            /\ UNCHANGED <<fo_page, fo_qsChanged>>
    /\ fo_iterClicks' = (IF fo_page.next THEN fo_iterClicks + 1 ELSE fo_iterClicks)
    /\ fo_pc' = "thanks"
    /\ UNCHANGED <<fo_row, fo_step, fo_sig, fo_stuck, fo_handled, fo_exit,
                   fo_sawThanks, fo_browser, fo_same, fo_nproc>>
    /\ UNCHANGED notFo

\* the click or the wait for networkidle after it times out
FillOneClickNextRaise ==
    /\ fo_pc = "advance"
    /\ fo_page.next
    /\ fo_exit' = "timeout"
    /\ fo_pc' = "crashed"
    /\ UNCHANGED <<fo_row, fo_step, fo_sig, fo_stuck, fo_page, fo_handled,
                   fo_qsChanged, fo_sawThanks, fo_browser, fo_same, fo_stayed, fo_nproc, fo_iterClicks>>
    /\ UNCHANGED notFo

\* a Thank-you check that never ends the row
ThanksIgnored(visible) == FALSE

\* if page.locator("text=Thank you").first.is_visible(): break
ThanksBreaks(visible) == visible

\* if "Thank you" is visible: break
FillOneThanks ==
    /\ fo_pc = "thanks"
    /\ fo_sawThanks' = fo_page.thanks
    /\ IF ThanksBreaks(fo_page.thanks)
       THEN /\ fo_exit' = "thanks"
            /\ fo_pc' = "rowdone"
       ELSE /\ fo_pc' = "sig"
            /\ UNCHANGED fo_exit
    /\ UNCHANGED <<fo_row, fo_step, fo_sig, fo_stuck, fo_page, fo_handled,
                   fo_qsChanged, fo_browser, fo_same, fo_stayed, fo_nproc, fo_iterClicks>>
    /\ UNCHANGED notFo

\* prev_sig is assigned "" before the loop and never updated
StuckTicksPrevSig(ticks, sig, new_sig) ==
    IF new_sig = <<>> THEN ticks + 1 ELSE 0

\* a counter that an iteration with a changed signature leaves as it is
StuckTicksNoReset(ticks, sig, new_sig) ==
    IF new_sig = sig THEN ticks + 1 ELSE ticks

\* stuck_ticks += 1 if new_sig == sig else stuck_ticks = 0
StuckTicks(ticks, sig, new_sig) ==
    IF new_sig = sig THEN ticks + 1 ELSE 0

\* new_sig = page_signature(page); update stuck_ticks; break at 3
FillOneStuck ==
    /\ fo_pc = "sig"
    /\ LET new_sig == page_signature(fo_page)
           ticks == StuckTicks(fo_stuck, fo_sig, new_sig)
       IN  /\ fo_stuck' = ticks
           /\ fo_same' = (IF new_sig = fo_sig THEN fo_same + 1 ELSE 0)
           /\ fo_stayed' = (ticks > 0 /\ fo_stayed)
           /\ IF ticks >= StuckLimit
              THEN /\ fo_exit' = "stuck"
                   /\ fo_pc' = "rowdone"
                   /\ UNCHANGED fo_step
              ELSE /\ fo_step' = fo_step + 1
                   /\ fo_pc' = "loop"
                   /\ UNCHANGED fo_exit
    /\ UNCHANGED <<fo_row, fo_sig, fo_page, fo_handled, fo_qsChanged,
                   fo_sawThanks, fo_browser, fo_nproc, fo_iterClicks>>
    /\ UNCHANGED notFo

\* main: fill_one returned; next row of the frame, or browser.close()
MainNextRow ==
    /\ fo_pc = "rowdone"
    /\ IF fo_row + 1 < NumRows
       THEN /\ fo_row' = fo_row + 1
            /\ fo_pc' = "goto"
            /\ UNCHANGED fo_browser
       ELSE /\ fo_browser' = {}
            /\ fo_pc' = "end"
            /\ UNCHANGED fo_row
    /\ UNCHANGED <<fo_step, fo_sig, fo_stuck, fo_page, fo_handled, fo_exit,
                   fo_qsChanged, fo_sawThanks, fo_same, fo_stayed, fo_nproc, fo_iterClicks>>
    /\ UNCHANGED notFo

NextFo ==
    \/ MainLaunch
    \/ FillOneGoto
    \/ FillOneGotoRaise
    \/ FillOneLoop
    \/ FillOneProcess
    \/ FillOneProcessRaise
    \/ FillOneClickNext
    \/ FillOneClickNextRaise
    \/ FillOneThanks
    \/ FillOneStuck
    \/ MainNextRow

(***************************************************************************)
(* run, process_single_row (src/main_auto_fill.py) and run, run_one_row    *)
(* (src/main.py).  rn_variant names the file whose orchestrator runs.      *)
(***************************************************************************)
RnVariants == {"main_auto_fill", "main"}

\* The page as the row driver reads it: the #next-button (absent, disabled or
\* enabled) and whether any section.question[id^='question-QID'] is present.
RnPages == [next : {"absent", "disabled", "enabled"}, questions : BOOLEAN]

RnBlank == [next |-> "absent", questions |-> FALSE]

\* await next_btn.count() and await next_btn.first.is_enabled()
NextOk(page) == page.next = "enabled"

RnRows == 0..(NumRows - 1)

IdleRn ==
    /\ rn_variant = "none"
    /\ rn_badEntry = FALSE
    /\ rn_manual = FALSE
    /\ rn_startUrl = FALSE
    /\ rn_pc = "idle"
    /\ rn_idx = 0
    /\ rn_open = {}
    /\ rn_page = RnBlank
    /\ rn_did = 0
    /\ rn_step = 0
    /\ rn_clicked = FALSE
    /\ rn_exit = "none"
    /\ rn_driven = {}
    /\ rn_raised = {}

\* opts.manual_continue exists only in main_auto_fill.py; rn_badEntry: the
\* mapping has a text entry with neither "id" nor "css"
InitRn ==
    /\ rn_variant \in RnVariants
    /\ rn_badEntry \in BOOLEAN
    /\ rn_manual \in (IF rn_variant = "main_auto_fill" THEN BOOLEAN ELSE {FALSE})
    /\ rn_startUrl \in BOOLEAN
    /\ rn_pc = "pick"
    /\ rn_idx = 0
    /\ rn_open = {}
    /\ rn_page = RnBlank
    /\ rn_did = 0
    /\ rn_step = 0
    /\ rn_clicked = FALSE
    /\ rn_exit = "none"
    /\ rn_driven = {}
    /\ rn_raised = {}

\* run: for idx in indices; leaving "async with async_playwright()" ends every browser
RunPick ==
    /\ rn_pc = "pick"
    /\ IF rn_idx < NumRows
       THEN /\ rn_pc' = "launch"
            /\ rn_driven' = rn_driven \cup {rn_idx}
            /\ UNCHANGED rn_open
       ELSE /\ rn_pc' = "finished"
            /\ rn_open' = {}
            /\ UNCHANGED rn_driven
    /\ UNCHANGED <<rn_variant, rn_badEntry, rn_manual, rn_startUrl, rn_idx, rn_page, rn_did,
                   rn_step, rn_clicked, rn_exit, rn_raised>>
    /\ UNCHANGED notRn

\* browser = launch(); ctx = browser.new_context(); page = ctx.new_page()
RowLaunch ==
    /\ rn_pc = "launch"
    /\ rn_variant = "main" \/ ~rn_badEntry
    /\ rn_open' = rn_open \cup {rn_idx}
    /\ rn_page' = RnBlank
    /\ rn_exit' = "none"
    /\ rn_clicked' = FALSE
    /\ rn_did' = 0
    /\ rn_pc' = "nav"
    /\ UNCHANGED <<rn_variant, rn_badEntry, rn_manual, rn_startUrl, rn_idx, rn_step, rn_driven, rn_raised>>
    /\ UNCHANGED notRn

\* the browser launch raises
RowLaunchRaise ==
    /\ rn_pc = "launch"
    /\ rn_exit' = "raised"
    /\ rn_raised' = rn_raised \cup {rn_idx}
    /\ rn_pc' = "raised"
    /\ UNCHANGED <<rn_variant, rn_badEntry, rn_manual, rn_startUrl, rn_idx, rn_open, rn_page, rn_did,
                   rn_step, rn_clicked, rn_driven>>
    /\ UNCHANGED notRn

\* css_from_entry raises ValueError in print_action_plan, which main_auto_fill.py
\* calls before the launch and main.py after it
RowPlanRaise ==
    /\ rn_badEntry
    /\ rn_pc = (IF rn_variant = "main_auto_fill" THEN "launch" ELSE "nav")
    /\ rn_exit' = "config"
    /\ rn_raised' = rn_raised \cup {rn_idx}
    /\ rn_pc' = "raised"
    /\ UNCHANGED <<rn_variant, rn_badEntry, rn_manual, rn_startUrl, rn_idx, rn_open, rn_page,
                   rn_did, rn_step, rn_clicked, rn_driven>>
    /\ UNCHANGED notRn

\* if mapping.get("start_url"): page.goto(...); step = 0
RowNav ==
    /\ rn_pc = "nav"
    /\ ~rn_badEntry
    /\ \E p \in (IF rn_startUrl THEN RnPages ELSE {rn_page}) : rn_page' = p
    /\ rn_step' = 0
    /\ rn_pc' = "fill"
    /\ UNCHANGED <<rn_variant, rn_badEntry, rn_manual, rn_startUrl, rn_idx, rn_open, rn_did,
                   rn_clicked, rn_exit, rn_driven, rn_raised>>
    /\ UNCHANGED notRn

\* page.goto times out or fails
RowNavRaise ==
    /\ rn_pc = "nav"
    /\ ~rn_badEntry
    /\ rn_startUrl
    /\ rn_exit' = "raised"
    /\ rn_raised' = rn_raised \cup {rn_idx}
    /\ rn_pc' = "raised"
    /\ UNCHANGED <<rn_variant, rn_badEntry, rn_manual, rn_startUrl, rn_idx, rn_open, rn_page, rn_did,
                   rn_step, rn_clicked, rn_driven>>
    /\ UNCHANGED notRn

\* step is only printed; the model stops counting it at MaxStepShown
StepShown(step) == IF step < MaxStepShown THEN step + 1 ELSE step

\* step += 1; did = fill_current_page(...)
RowFill ==
    /\ rn_pc = "fill"
    /\ rn_step' = StepShown(rn_step)
    /\ \E d \in 0..MaxDid : rn_did' = d
    /\ \E p \in RnPages : rn_page' = p
    /\ rn_clicked' = FALSE
    /\ rn_pc' = "next"
    /\ UNCHANGED <<rn_variant, rn_badEntry, rn_manual, rn_startUrl, rn_idx, rn_open, rn_exit,
                   rn_driven, rn_raised>>
    /\ UNCHANGED notRn

\* fill_current_page raises (a mapping entry without id or css, a page error)
RowFillRaise ==
    /\ rn_pc = "fill"
    /\ rn_exit' = "raised"
    /\ rn_raised' = rn_raised \cup {rn_idx}
    /\ rn_pc' = "raised"
    /\ UNCHANGED <<rn_variant, rn_badEntry, rn_manual, rn_startUrl, rn_idx, rn_open, rn_page, rn_did,
                   rn_step, rn_clicked, rn_driven>>
    /\ UNCHANGED notRn

\* a driver that advances only after it acted on the page
AdvanceOnlyIfActed(did, manual, nextOk) ==
    IF did = 0 THEN "halt"
    ELSE IF manual THEN "manual"
    ELSE IF nextOk THEN "click" ELSE "halt"

\* the Next decision after fill_current_page
AdvanceDecision(did, manual, nextOk) ==
    IF did = 0
    THEN IF nextOk THEN "click" ELSE "halt"
    ELSE IF manual THEN "manual"
    ELSE IF nextOk THEN "click" ELSE "halt"

\* click_next_and_wait (catches its own errors), input() for a manual Next, or break
RowNext ==
    /\ rn_pc = "next"
    /\ LET d == AdvanceDecision(rn_did, rn_manual, NextOk(rn_page))
       IN  \/ /\ d = "click"
              /\ rn_clicked' = TRUE
              /\ \E p \in RnPages : rn_page' = p
              /\ rn_pc' = "endcheck"
              /\ UNCHANGED rn_exit
           \/ /\ d = "manual"
              /\ \E p \in RnPages : rn_page' = p
              /\ rn_pc' = "endcheck"
              /\ UNCHANGED <<rn_clicked, rn_exit>>
           \/ /\ d = "halt"
              /\ rn_exit' = "halt"
              /\ rn_pc' = "close"
              /\ UNCHANGED <<rn_clicked, rn_page>>
    /\ UNCHANGED <<rn_variant, rn_badEntry, rn_manual, rn_startUrl, rn_idx, rn_open, rn_did,
                   rn_step, rn_driven, rn_raised>>
    /\ UNCHANGED notRn

\* if count of section.question[id^='question-QID'] == 0: break
RowEndCheck ==
    /\ rn_pc = "endcheck"
    /\ IF ~rn_page.questions
       THEN /\ rn_exit' = "done"
            /\ rn_pc' = "close"
       ELSE /\ rn_pc' = "fill"
            /\ UNCHANGED rn_exit
    /\ UNCHANGED <<rn_variant, rn_badEntry, rn_manual, rn_startUrl, rn_idx, rn_open, rn_page, rn_did,
                   rn_step, rn_clicked, rn_driven, rn_raised>>
    /\ UNCHANGED notRn

\* ctx.close(); browser.close(); back in run's loop
RowClose ==
    /\ rn_pc = "close"
    /\ rn_open' = rn_open \ {rn_idx}
    /\ rn_idx' = rn_idx + 1
    /\ rn_pc' = "pick"
    /\ UNCHANGED <<rn_variant, rn_badEntry, rn_manual, rn_startUrl, rn_page, rn_did, rn_step,
                   rn_clicked, rn_exit, rn_driven, rn_raised>>
    /\ UNCHANGED notRn

\* main.py run: except Exception: print(...) and go on with the next row
RunCatch ==
    /\ rn_pc = "raised"
    /\ rn_variant = "main"
    /\ rn_idx' = rn_idx + 1
    /\ rn_pc' = "pick"
    /\ UNCHANGED <<rn_variant, rn_badEntry, rn_manual, rn_startUrl, rn_open, rn_page, rn_did, rn_step,
                   rn_clicked, rn_exit, rn_driven, rn_raised>>
    /\ UNCHANGED notRn

\* main_auto_fill.py run: no handler, the exception leaves run and ends the process
RunAbort ==
    /\ rn_pc = "raised"
    /\ rn_variant = "main_auto_fill"
    /\ rn_open' = {}
    /\ rn_pc' = "aborted"
    /\ UNCHANGED <<rn_variant, rn_badEntry, rn_manual, rn_startUrl, rn_idx, rn_page, rn_did, rn_step,
                   rn_clicked, rn_exit, rn_driven, rn_raised>>
    /\ UNCHANGED notRn

NextRn ==
    \/ RunPick
    \/ RowLaunch
    \/ RowLaunchRaise
    \/ RowPlanRaise
    \/ RowNav
    \/ RowNavRaise
    \/ RowFill
    \/ RowFillRaise
    \/ RowNext
    \/ RowEndCheck
    \/ RowClose
    \/ RunCatch
    \/ RunAbort

(***************************************************************************)
(* Per-field fillers: handle_clipper_serial_page (src/main_autofill.py),   *)
(* the TEXT and RADIO parts of fill_current_page (src/main_auto_fill.py),  *)
(* the radio and radio-yn parts of process_page (src/processor.py) and     *)
(* click_radio (src/helpers_generic.py).  One call handles one field.      *)
(***************************************************************************)
FpHandlers == {"clipper", "fill_text", "fill_radio", "proc_radio", "proc_radio_yn"}

\* fp_typed holds the strings typed into the field, in order
NoText == <<>>
NoOption == "none"

\* value = "1234567890"  # Default for testing
DefaultSerial == <<"1", "2", "3", "4", "5", "6", "7", "8", "9", "0">>

\* the four column names handle_clipper_serial_page tries; the row holds h1, h2 at most
ClipperCols == <<"h3", "h1", "h2", "h4">>

\* for col in possible_cols: if col in row and str(row[col]).strip(): value = ...; break
RECURSIVE FirstNonEmpty(_, _)
FirstNonEmpty(row, cols) ==
    IF cols = <<>> THEN <<>>
    ELSE IF Head(cols) \in DOMAIN row /\ strip(row[Head(cols)]) # <<>>
         THEN strip(row[Head(cols)])
         ELSE FirstNonEmpty(row, Tail(cols))

\* row.get(header, "")
RowGet(row, h) == IF h \in DOMAIN row THEN row[h] ELSE <<>>

\* an entry's configured default_value / default_choice
ConfiguredDefault == <<"x">>

\* value_map of a radio entry, in table order: key -> choice index
ValueMap == << [k |-> <<"x">>, v |-> "opt1"], [k |-> <<"X", " ", "x">>, v |-> "opt2"] >>

\* a radio resolver without the look-up of the value itself
resolve_radio_loose(value_map, desired) ==
    LET hit == {i \in 1..Len(value_map) : norm_case(value_map[i].k) = norm_case(desired)}
    IN  IF desired = <<>> \/ hit = {} THEN "none"
        ELSE value_map[CHOOSE i \in hit : \A j \in hit : i <= j].v

\* resolve_radio_selector: exact key first, then the first key equal after norm_case
resolve_radio_selector(value_map, desired) ==
    IF desired = <<>> THEN NoOption
    ELSE IF \E i \in 1..Len(value_map) : value_map[i].k = desired
    THEN value_map[CHOOSE i \in 1..Len(value_map) : value_map[i].k = desired].v
    ELSE LET hit == {i \in 1..Len(value_map) : norm_case(value_map[i].k) = norm_case(desired)}
         IN  IF hit = {} THEN NoOption
             ELSE value_map[CHOOSE i \in hit : \A j \in hit : i <= j].v

\* norm_case(cell).startswith("other")
StartsWithOther(cell) ==
    LET c == norm_case(cell)
    IN  Len(c) >= 5 /\ SubSeq(c, 1, 5) = <<"o", "t", "h", "e", "r">>

\* processor.get: the column itself, else the first column equal after norm, else ""
NormKey(k) == IF k = "h1 " THEN "h1" ELSE k

get(row, col) ==
    IF col \in DOMAIN row THEN row[col]
    ELSE IF \E k \in DOMAIN row : NormKey(k) = NormKey(col)
    THEN row[CHOOSE k \in DOMAIN row : NormKey(k) = NormKey(col)]
    ELSE <<>>

YES == <<"Y", "e", "s">>
NO == <<"N", "o">>
YesWords == { <<"y", "e", "s">>, <<"y">>, <<"t", "r", "u", "e">>, <<"1">> }

\* cells of a yes/no column
YnCells == { <<>>, <<" ">>, <<"y">>, <<"Y", " ">>, <<"n", "o">>, <<"x">> }

\* A question section as click_radio reads it: the option labels, whether the
\* radios expose their labels as accessible names, whether input[type=radio]
\* elements exist, whether [role=radio] elements exist, and whether the first
\* radio is already checked.
FpLabelLists == { << <<"x">>, <<"X", " ", "x">> >>, << YES, NO >>, << <<>>, <<>> >> }

FpSections ==
    [labels : FpLabelLists, aria : BOOLEAN, inputs : BOOLEAN, roles : BOOLEAN,
     firstChecked : BOOLEAN]

Opt(i) == IF i = 1 THEN "opt1" ELSE "opt2"

\* click_radio: by role name, by label text, then the first radio input, then
\* the first radio-like element.  ok is the return value, opt the option it
\* clicked or checked, dbg whether it printed "Could not match radio label".
click_radio(sec, text) ==
    LET n == Len(sec.labels)
        byRole == IF (sec.inputs \/ sec.roles) /\ sec.aria
                  THEN {i \in 1..n : ilike(norm_space(sec.labels[i]), norm_space(text))}
                  ELSE {}
        byLabel == {i \in 1..n :
                       \/ ilike(norm_space(sec.labels[i]), norm_space(text))
                       \/ IsSubstr(norm_space(text), norm_space(sec.labels[i]))}
        first(S) == CHOOSE i \in S : \A j \in S : i <= j
        dbg == text # <<>>
    IN  IF text # <<>> /\ byRole # {}
        THEN [ok |-> TRUE, opt |-> Opt(first(byRole)), dbg |-> FALSE]
        ELSE IF text # <<>> /\ byLabel # {}
        THEN [ok |-> TRUE, opt |-> Opt(first(byLabel)), dbg |-> FALSE]
        ELSE IF sec.inputs
        THEN [ok |-> TRUE, opt |-> IF sec.firstChecked THEN NoOption ELSE "opt1", dbg |-> dbg]
        ELSE IF sec.roles THEN [ok |-> TRUE, opt |-> "opt1", dbg |-> dbg]
        ELSE [ok |-> FALSE, opt |-> NoOption, dbg |-> dbg]

\* re.sub(r'^\s*other.*?:\s*', '', cell, flags=re.I).strip(): what follows the
\* first ':' when the text starts with "other", else the text itself
OtherFree(cell) ==
    LET s == lstrip(cell)
        colons == {i \in 6..Len(s) : s[i] = ":"}
    IN  IF Len(s) >= 5 /\ lower(SubSeq(s, 1, 5)) = <<"o", "t", "h", "e", "r">> /\ colons # {}
        THEN strip(SubSeq(s, (CHOOSE i \in colons : \A j \in colons : i <= j) + 1, Len(s)))
        ELSE strip(cell)

IdleFp ==
    /\ fp_pc = "idle"
    /\ fp_handler = "none"
    /\ fp_row = <<>>
    /\ fp_entry = <<>>
    /\ fp_page = <<>>
    /\ fp_typed = NoText
    /\ fp_selected = NoOption
    /\ fp_actions = 0
    /\ fp_log = <<>>
    /\ fp_next = FALSE

FpRows1 == UNION {[D -> Strs] : D \in SUBSET {"h1"}}

\* cells that name the "other" option, with and without free text
OtherCells == { <<"O", "t", "h", "e", "r", ":", " ", "x">>, <<"o", "t", "h", "e", "r">> }

FpRadioRows == FpRows1 \cup {[h1 |-> c] : c \in OtherCells}

InitFp ==
    /\ fp_pc = "call"
    /\ fp_handler \in FpHandlers
    /\ \/ /\ fp_handler = "clipper"
          /\ fp_row \in Rows
          /\ fp_entry = <<>>
          /\ fp_page \in [visible : BOOLEAN, input : BOOLEAN, ok : BOOLEAN, next : BOOLEAN]
       \/ /\ fp_handler = "fill_text"
          /\ fp_row \in Rows
          /\ fp_entry \in [default_from_csv : BOOLEAN, default_value : BOOLEAN,
                           halt_if_empty : BOOLEAN, debug : BOOLEAN]
          /\ fp_page \in [visible : BOOLEAN, ok : BOOLEAN]
       \/ /\ fp_handler = "fill_radio"
          /\ fp_row \in FpRadioRows
          /\ fp_entry \in [default_choice : BOOLEAN, default_if_nonempty : BOOLEAN,
                           other : BOOLEAN, debug : BOOLEAN]
          /\ fp_page \in [present : BOOLEAN, ok : BOOLEAN, otherVisible : BOOLEAN]
       \/ /\ fp_handler = "proc_radio"
          /\ fp_row \in UNION {[D -> Strs] : D \in {{}, {"h1"}, {"h1 "}}}
          /\ fp_entry = <<>>
          /\ fp_page \in FpSections
       \/ /\ fp_handler = "proc_radio_yn"
          /\ fp_row \in UNION {[D -> YnCells] : D \in {{}, {"h1"}}}
          /\ fp_entry = <<>>
          /\ fp_page \in FpSections
    /\ fp_typed = NoText
    /\ fp_selected = NoOption
    /\ fp_actions = 0
    /\ fp_log = <<>>
    /\ fp_next = FALSE

\* handle_clipper_serial_page
ClipperSerial ==
    /\ fp_pc = "call"
    /\ fp_handler = "clipper"
    /\ LET found == FirstNonEmpty(fp_row, ClipperCols)
           value == IF found = <<>> THEN DefaultSerial ELSE found
           warn == IF found = <<>> THEN <<"WARNING no serial", "DEFAULT">> ELSE <<>>
       IN  IF ~fp_page.visible
           THEN /\ fp_log' = <<"ERROR section not visible">>
                /\ UNCHANGED <<fp_typed, fp_next>>
           ELSE IF ~fp_page.input
           THEN /\ fp_log' = warn \o <<"ERROR no text input">>
                /\ UNCHANGED <<fp_typed, fp_next>>
           ELSE /\ \E t \in (IF fp_page.ok THEN {<<value>>} ELSE {<<value>>, NoText}) : fp_typed' = t
                /\ fp_log' = warn
                /\ fp_next' = fp_page.next
    /\ fp_pc' = "ret"
    /\ UNCHANGED <<fp_handler, fp_row, fp_entry, fp_page, fp_selected, fp_actions>>
    /\ UNCHANGED notFp

\* the value fill_current_page types for a text entry ("" when it skips)
TextValue(row, entry) ==
    LET v1 == norm_space(RowGet(row, "h1"))
        v2 == IF v1 = <<>> /\ entry.default_from_csv THEN norm_space(RowGet(row, "h2")) ELSE v1
    IN  IF v2 = <<>> /\ entry.default_value THEN ConfiguredDefault ELSE v2

\* fill_current_page, one TEXT entry
FillText ==
    /\ fp_pc = "call"
    /\ fp_handler = "fill_text"
    /\ LET val == TextValue(fp_row, fp_entry)
       IN  IF val = <<>> /\ fp_entry.halt_if_empty
           THEN /\ fp_pc' = "exit"
                /\ fp_log' = <<"halt required text empty">>
                /\ UNCHANGED <<fp_typed, fp_actions>>
           ELSE IF val = <<>>
           THEN /\ fp_pc' = "ret"
                /\ fp_log' = (IF fp_entry.debug THEN <<"skip empty CSV">> ELSE <<>>)
                /\ UNCHANGED <<fp_typed, fp_actions>>
           ELSE IF ~fp_page.visible
           THEN /\ fp_pc' = "ret"
                /\ fp_log' = (IF fp_entry.debug THEN <<"skip control not on page">> ELSE <<>>)
                /\ UNCHANGED <<fp_typed, fp_actions>>
           ELSE /\ fp_pc' = "ret"
                /\ fp_log' = (IF fp_entry.debug THEN <<"TYPE">> ELSE <<>>)
                /\ IF fp_page.ok
                   THEN fp_typed' = <<val>> /\ fp_actions' = fp_actions + 1
                   ELSE (\E t \in {<<val>>, NoText} : fp_typed' = t) /\ UNCHANGED fp_actions
    /\ UNCHANGED <<fp_handler, fp_row, fp_entry, fp_page, fp_selected, fp_next>>
    /\ UNCHANGED notFp

\* fill_current_page, one RADIO entry
FillRadio ==
    /\ fp_pc = "call"
    /\ fp_handler = "fill_radio"
    /\ LET c1 == norm_space(RowGet(fp_row, "h1"))
           cell == IF c1 = <<>> /\ fp_entry.default_choice THEN ConfiguredDefault ELSE c1
           mapped == resolve_radio_selector(ValueMap, cell)
           dbg(tag) == IF fp_entry.debug THEN <<tag>> ELSE <<>>
       IN  IF cell = <<>>
           THEN /\ fp_log' = dbg("skip empty CSV")
                /\ UNCHANGED <<fp_typed, fp_selected, fp_actions>>
           ELSE IF ~fp_page.present
           THEN /\ fp_log' = dbg("skip radio group not on page")
                /\ UNCHANGED <<fp_typed, fp_selected, fp_actions>>
           ELSE IF fp_entry.default_if_nonempty
           THEN /\ fp_log' = dbg("CLICK default_if_nonempty")
                /\ fp_selected' = (IF fp_page.ok THEN "default" ELSE NoOption)
                /\ fp_actions' = (IF fp_page.ok THEN fp_actions + 1 ELSE fp_actions)
                /\ UNCHANGED fp_typed
           ELSE IF mapped # NoOption
           THEN /\ fp_selected' = (IF fp_page.ok THEN mapped ELSE NoOption)
                /\ IF fp_entry.other /\ StartsWithOther(cell) /\ OtherFree(cell) # <<>> /\ fp_page.otherVisible
                   THEN /\ fp_log' = dbg("CLICK") \o dbg("TYPE other")
                        /\ fp_typed' = (IF fp_page.ok THEN <<OtherFree(cell)>> ELSE NoText)
                        /\ fp_actions' = (IF fp_page.ok THEN fp_actions + 2 ELSE fp_actions)
                   ELSE /\ fp_log' = dbg("CLICK")
                        /\ fp_actions' = (IF fp_page.ok THEN fp_actions + 1 ELSE fp_actions)
                        /\ UNCHANGED fp_typed
           ELSE IF fp_entry.other
           THEN /\ fp_selected' = (IF fp_page.ok THEN "other" ELSE NoOption)
                /\ IF fp_page.otherVisible
                   THEN /\ fp_log' = dbg("CLICK auto-select Other") \o dbg("TYPE radio other auto")
                        /\ \E done \in (IF fp_page.ok THEN {TRUE} ELSE BOOLEAN) :
                              /\ fp_typed' = (IF done THEN <<cell>> ELSE NoText)
                              /\ fp_actions' = (IF done THEN fp_actions + 1 ELSE fp_actions)
                   ELSE /\ fp_log' = dbg("CLICK auto-select Other") \o dbg("skip Other textbox not visible")
                        /\ UNCHANGED <<fp_typed, fp_actions>>
           ELSE /\ UNCHANGED <<fp_typed, fp_selected, fp_actions, fp_log>>
    /\ fp_pc' = "ret"
    /\ UNCHANGED <<fp_handler, fp_row, fp_entry, fp_page, fp_next>>
    /\ UNCHANGED notFp

\* process_page, typ == "radio": click_radio, then _force_check_first_radio
ProcRadio ==
    /\ fp_pc = "call"
    /\ fp_handler = "proc_radio"
    /\ LET want == strip(get(fp_row, "h1"))
           r == click_radio(fp_page, want)
       IN  /\ fp_selected' = r.opt
           /\ fp_actions' = (IF r.ok THEN 1 ELSE 0)
           /\ fp_log' = <<"radio">>
                        \o (IF r.dbg THEN <<"DEBUG could not match radio label">> ELSE <<>>)
                        \o <<"clicked?">>
    /\ fp_pc' = "ret"
    /\ UNCHANGED <<fp_handler, fp_row, fp_entry, fp_page, fp_typed, fp_next>>
    /\ UNCHANGED notFp

\* process_page, typ == "radio-yn": click_radio("Yes"/"No"), then _force_check_yes_no
ProcRadioYn ==
    /\ fp_pc = "call"
    /\ fp_handler = "proc_radio_yn"
    /\ LET raw == lower(strip(get(fp_row, "h1")))
           choice == IF raw \in YesWords THEN YES ELSE NO
           r == click_radio(fp_page, choice)
       IN  /\ fp_selected' = r.opt
           /\ fp_actions' = (IF r.ok THEN 1 ELSE 0)
           /\ fp_log' = <<"radio-yn">>
                        \o (IF r.dbg THEN <<"DEBUG could not match radio label">> ELSE <<>>)
                        \o <<"clicked?">>
    /\ fp_pc' = "ret"
    /\ UNCHANGED <<fp_handler, fp_row, fp_entry, fp_page, fp_typed, fp_next>>
    /\ UNCHANGED notFp

NextFp ==
    \/ ClipperSerial
    \/ FillText
    \/ FillRadio
    \/ ProcRadio
    \/ ProcRadioYn

(***************************************************************************)
(* Multi-choice cells: parse_multi, resolve_checkboxes                     *)
(* (src/main_auto_fill.py), _resolve_checkbox_targets (src/plan_actions.py)*)
(* and the checkbox fillers: the CHECKBOX part of fill_current_page, the   *)
(* checkbox-multi part of process_page with click_checkbox.                *)
(***************************************************************************)
CkChars == {" ", "a", "A", ";", ","}

\* "A; Other: custom text" in the model's alphabet, and cells with several
\* "other" tokens
LongCells ==
    { <<"A", ";", " ", "O", "t", "h", "e", "r", ":", " ", "x">>,
      <<"O", "t", "h", "e", "r", ":", "x", ";", "o", "t", "h", "e", "r", ":", " ", "a">>,
      <<"o", "t", "h", "e", "r", ":", "x", ",", "O", "T", "H", "E", "R", ":", "x">>,
      <<"a", ";", "A", " ", "a", ";", "x">> }

CkCells == SeqsUpTo(CkChars, MaxCellLen) \cup LongCells

\* multi_delimiter of the entry; "" when none is configured
NoDelim == ""
CkDelims == {NoDelim, ";", ","}

\* value_map of a checkbox entry, in table order (<<>>: none or empty)
CkMaps ==
    { <<>>,
      << [k |-> <<"a">>, v |-> "opt1"], [k |-> <<"A", " ", "a">>, v |-> "opt2"] >>,
      << [k |-> <<"A">>, v |-> "opt1"], [k |-> <<"a">>, v |-> "opt2"] >> }

\* str.split / re.split on the characters of delims; cur is the piece being read
RECURSIVE SplitOn(_, _, _)
SplitOn(s, delims, cur) ==
    IF s = <<>> THEN <<cur>>
    ELSE IF Head(s) \in delims THEN <<cur>> \o SplitOn(Tail(s), delims, <<>>)
    ELSE SplitOn(Tail(s), delims, Append(cur, Head(s)))

\* [norm_space(p) for p in parts], then [p for p in parts if p]
RECURSIVE NormNonEmpty(_)
NormNonEmpty(parts) ==
    IF parts = <<>> THEN <<>>
    ELSE LET t == norm_space(Head(parts))
         IN  (IF t = <<>> THEN <<>> ELSE <<t>>) \o NormNonEmpty(Tail(parts))

\* a splitter that keeps the pieces as they are written
parse_multi_raw(cell, delim) ==
    IF cell = <<>> THEN <<>>
    ELSE SelectSeq(SplitOn(cell, IF delim = NoDelim THEN {";", ","} ELSE {delim}, <<>>),
                   LAMBDA t : t # <<>>)

parse_multi(cell, delim) ==
    IF cell = <<>> THEN <<>>
    ELSE NormNonEmpty(SplitOn(cell, IF delim = NoDelim THEN {";", ","} ELSE {delim}, <<>>))

\* the option a token resolves to: exact key, else first key equal after norm_case
CheckboxHit(value_map, it) ==
    IF \E i \in 1..Len(value_map) : value_map[i].k = it
    THEN value_map[CHOOSE i \in 1..Len(value_map) : value_map[i].k = it].v
    ELSE LET hit == {i \in 1..Len(value_map) : norm_case(value_map[i].k) = norm_case(it)}
         IN  IF hit = {} THEN NoOption
             ELSE value_map[CHOOSE i \in hit : \A j \in hit : i <= j].v

\* a resolver that forgets the tokens it cannot resolve
RECURSIVE ResolveItemsDropping(_, _)
ResolveItemsDropping(value_map, items) ==
    IF items = <<>> THEN [sel |-> <<>>, unmatched |-> <<>>]
    ELSE LET h == CheckboxHit(value_map, Head(items))
             r == ResolveItemsDropping(value_map, Tail(items))
         IN  IF h # NoOption
             THEN [sel |-> <<h>> \o r.sel, unmatched |-> r.unmatched]
             ELSE r

RECURSIVE ResolveItems(_, _)
ResolveItems(value_map, items) ==
    IF items = <<>> THEN [sel |-> <<>>, unmatched |-> <<>>]
    ELSE LET h == CheckboxHit(value_map, Head(items))
             r == ResolveItems(value_map, Tail(items))
         IN  IF h # NoOption
             THEN [sel |-> <<h>> \o r.sel, unmatched |-> r.unmatched]
             ELSE [sel |-> r.sel, unmatched |-> <<Head(items)>> \o r.unmatched]

resolve_checkboxes(value_map, cell, multi_delim) ==
    LET items == parse_multi(cell, multi_delim)
    IN  IF items = <<>> THEN [sel |-> <<>>, unmatched |-> <<>>]
        ELSE IF value_map # <<>> THEN ResolveItems(value_map, items)
        ELSE [sel |-> <<>>, unmatched |-> items]

\* plan_actions: value_map.get(tok), else first key with _norm(k).lower() == tok.lower()
PlanHit(value_map, tok) ==
    IF \E i \in 1..Len(value_map) : value_map[i].k = tok
    THEN value_map[CHOOSE i \in 1..Len(value_map) : value_map[i].k = tok].v
    ELSE LET hit == {i \in 1..Len(value_map) : lower(norm_space(value_map[i].k)) = lower(tok)}
         IN  IF hit = {} THEN NoOption
             ELSE value_map[CHOOSE i \in hit : \A j \in hit : i <= j].v

RECURSIVE PlanItems(_, _)
PlanItems(value_map, tokens) ==
    IF tokens = <<>> THEN [sel |-> <<>>, unmatched |-> <<>>]
    ELSE LET h == PlanHit(value_map, Head(tokens))
             r == PlanItems(value_map, Tail(tokens))
         IN  IF h # NoOption
             THEN [sel |-> <<h>> \o r.sel, unmatched |-> r.unmatched]
             ELSE [sel |-> r.sel, unmatched |-> <<Head(tokens)>> \o r.unmatched]

\* c.get("multi_delimiter", ";") of build_action_plan
PlanDelim(delim) == IF delim = NoDelim THEN ";" ELSE delim

PlanTokens(cell, delim) == NormNonEmpty(SplitOn(cell, {PlanDelim(delim)}, <<>>))

_resolve_checkbox_targets(value_map, csv_cell, delim) ==
    IF csv_cell = <<>> \/ PlanTokens(csv_cell, delim) = <<>>
    THEN [sel |-> <<>>, unmatched |-> <<>>]
    ELSE IF value_map # <<>> THEN PlanItems(value_map, PlanTokens(csv_cell, delim))
    ELSE [sel |-> <<>>, unmatched |-> PlanTokens(csv_cell, delim)]

IdleCk ==
    /\ ck_pc = "idle"
    /\ ck_fn = "none"
    /\ ck_cell = <<>>
    /\ ck_delim = NoDelim
    /\ ck_map = <<>>
    /\ ck_entry = <<>>
    /\ ck_page = <<>>
    /\ ck_tokens = <<>>
    /\ ck_sel = <<>>
    /\ ck_unmatched = <<>>
    /\ ck_checked = {}
    /\ ck_first = {}
    /\ ck_round = 0
    /\ ck_typed = <<>>
    /\ ck_actions = 0
    /\ ck_log = <<>>

CkPureFns == {"parse_multi", "resolve_checkboxes", "_resolve_checkbox_targets",
              "resolve_radio_selector"}
CkFillFns == {"fill_checkbox", "click_checkbox"}

\* cells of a checkbox column as the fillers meet them
FillCells ==
    LongCells \cup { <<>>, <<" ">>, <<"a">>, <<"a", ";", "A">>, <<"a", ",", "a">>, <<"A", " ", "a">>,
                     <<"a", "|", "A", " ", "a">>, <<"A", " ", "a", "|", "x">> }

CkOptions == {"opt1", "opt2"}

\* how a checkbox answers loc.check(force=True): it gets checked, or check
\* raises and click_selector clicks it, or both fail
CkHows == {"check", "click", "fail"}

InitCk ==
    /\ ck_pc = "call"
    /\ ck_fn \in CkPureFns \cup CkFillFns
    /\ \/ /\ ck_fn = "parse_multi"
          /\ ck_cell \in CkCells
          /\ ck_delim \in CkDelims
          /\ ck_map = <<>>
          /\ ck_entry = <<>>
          /\ ck_page = <<>>
          /\ ck_checked = {}
       \/ /\ ck_fn \in {"resolve_checkboxes", "_resolve_checkbox_targets",
                       "resolve_radio_selector"}
          /\ ck_cell \in CkCells
          /\ ck_delim \in CkDelims
          /\ ck_map \in CkMaps
          /\ ck_entry = <<>>
          /\ ck_page = <<>>
          /\ ck_checked = {}
       \/ /\ ck_fn = "fill_checkbox"
          /\ ck_cell \in FillCells
          /\ ck_delim \in {NoDelim, ";"}
          /\ ck_map \in CkMaps
          /\ ck_entry \in [auto_other : BOOLEAN, other : BOOLEAN, debug : BOOLEAN]
          /\ ck_page \in [present : BOOLEAN, how : CkHows, otherVisible : BOOLEAN,
                          typeOk : BOOLEAN]
          /\ ck_checked \in SUBSET CkOptions
       \/ /\ ck_fn = "click_checkbox"
          /\ ck_cell \in FillCells
          /\ ck_delim = NoDelim
          /\ ck_map = <<>>
          /\ ck_entry = <<>>
          /\ ck_page \in [boxes : BOOLEAN, before : SUBSET CkOptions]
          /\ ck_checked = ck_page.before
    /\ ck_tokens = <<>>
    /\ ck_sel = <<>>
    /\ ck_unmatched = <<>>
    /\ ck_first = {}
    /\ ck_round = 1
    /\ ck_typed = <<>>
    /\ ck_actions = 0
    /\ ck_log = <<>>

ckInputs == <<ck_fn, ck_cell, ck_delim, ck_map, ck_entry, ck_page>>

\* one call of parse_multi
ParseMulti ==
    /\ ck_pc = "call"
    /\ ck_fn = "parse_multi"
    /\ ck_tokens' = parse_multi(ck_cell, ck_delim)
    /\ ck_pc' = "ret"
    /\ UNCHANGED <<ckInputs, ck_sel, ck_unmatched, ck_checked, ck_first, ck_round,
                   ck_typed, ck_actions, ck_log>>
    /\ UNCHANGED notCk

\* one call of resolve_checkboxes
ResolveCheckboxes ==
    /\ ck_pc = "call"
    /\ ck_fn = "resolve_checkboxes"
    /\ LET r == resolve_checkboxes(ck_map, ck_cell, ck_delim)
       IN  /\ ck_tokens' = parse_multi(ck_cell, ck_delim)
           /\ ck_sel' = r.sel
           /\ ck_unmatched' = r.unmatched
    /\ ck_pc' = "ret"
    /\ UNCHANGED <<ckInputs, ck_checked, ck_first, ck_round, ck_typed, ck_actions, ck_log>>
    /\ UNCHANGED notCk

\* one call of resolve_radio_selector; ck_sel holds the selector it returns
ResolveRadio ==
    /\ ck_pc = "call"
    /\ ck_fn = "resolve_radio_selector"
    /\ LET r == resolve_radio_selector(ck_map, ck_cell)
       IN  ck_sel' = (IF r = NoOption THEN <<>> ELSE <<r>>)
    /\ ck_pc' = "ret"
    /\ UNCHANGED <<ckInputs, ck_tokens, ck_unmatched, ck_checked, ck_first, ck_round, ck_typed,
                   ck_actions, ck_log>>
    /\ UNCHANGED notCk

\* one call of _resolve_checkbox_targets
PlanCheckboxTargets ==
    /\ ck_pc = "call"
    /\ ck_fn = "_resolve_checkbox_targets"
    /\ LET r == _resolve_checkbox_targets(ck_map, ck_cell, ck_delim)
       IN  /\ ck_tokens' = (IF ck_cell = <<>> THEN <<>> ELSE PlanTokens(ck_cell, ck_delim))
           /\ ck_sel' = r.sel
           /\ ck_unmatched' = r.unmatched
    /\ ck_pc' = "ret"
    /\ UNCHANGED <<ckInputs, ck_checked, ck_first, ck_round, ck_typed, ck_actions, ck_log>>
    /\ UNCHANGED notCk

\* the page after one option was acted on: check sets it, a click toggles it
ActOn(checked, opt, how) ==
    CASE how = "check" -> checked \cup {opt}
      [] how = "click" -> IF opt \in checked THEN checked \ {opt} ELSE checked \cup {opt}
      [] OTHER -> checked

\* for sel in to_check: loc.check(force=True), except: click_selector
RECURSIVE CheckAll(_, _, _)
CheckAll(checked, sels, how) ==
    IF sels = <<>> THEN checked
    ELSE CheckAll(ActOn(checked, Head(sels), how), Tail(sels), how)

\* explicit_others: the text after the prefix of every token starting with "other"
RECURSIVE ExplicitOthers(_)
ExplicitOthers(tokens) ==
    IF tokens = <<>> THEN <<>>
    ELSE LET v == OtherFree(Head(tokens))
         IN  (IF StartsWithOther(Head(tokens)) /\ v # <<>> THEN <<v>> ELSE <<>>)
             \o ExplicitOthers(Tail(tokens))

\* combined: unmatched + explicit_others without repeats (compared by norm_case)
RECURSIVE Combined(_, _)
Combined(xs, seen) ==
    IF xs = <<>> THEN <<>>
    ELSE IF norm_case(Head(xs)) \in seen THEN Combined(Tail(xs), seen)
    ELSE <<Head(xs)>> \o Combined(Tail(xs), seen \cup {norm_case(Head(xs))})

\* ", ".join(combined)
RECURSIVE JoinComma(_)
JoinComma(parts) ==
    IF parts = <<>> THEN <<>>
    ELSE IF Len(parts) = 1 THEN parts[1]
    ELSE parts[1] \o <<",", " ">> \o JoinComma(Tail(parts))

CkLine(tag) == [tag |-> tag, group |-> "", field |-> "", tokens |-> <<>>]

\* fill_current_page, one CHECKBOX entry
FillCheckbox ==
    /\ ck_pc = "call"
    /\ ck_fn = "fill_checkbox"
    /\ LET r == resolve_checkboxes(ck_map, ck_cell, ck_delim)
           tokens == parse_multi(ck_cell, ck_delim)
           explicit == ExplicitOthers(tokens)
           need_other == (r.unmatched # <<>> \/ explicit # <<>>)
                         /\ ck_entry.auto_other /\ ck_entry.other
           txt == JoinComma(Combined(r.unmatched \o explicit, {}))
           dbg(tag) == IF ck_entry.debug THEN <<CkLine(tag)>> ELSE <<>>
           nsel == IF ck_page.how = "fail" THEN 0 ELSE Len(r.sel)
           afterSel == CheckAll(ck_checked, r.sel, ck_page.how)
           checkLog == IF ck_page.how = "check" /\ r.sel # <<>> THEN dbg("CHECK") ELSE <<>>
           report == IF r.unmatched # <<>>
                     THEN << [tag |-> "skip checkbox entries not mapped", group |-> "group",
                              field |-> "csv", tokens |-> r.unmatched] >>
                     ELSE <<>>
       IN  IF norm_space(ck_cell) = <<>>
           THEN /\ ck_log' = dbg("skip empty CSV")
                /\ ck_actions' = 0
                /\ UNCHANGED <<ck_tokens, ck_sel, ck_unmatched, ck_checked, ck_typed>>
           ELSE IF ~ck_page.present
           THEN /\ ck_log' = dbg("skip checkbox group not on page")
                /\ ck_actions' = 0
                /\ UNCHANGED <<ck_tokens, ck_sel, ck_unmatched, ck_checked, ck_typed>>
           ELSE /\ ck_tokens' = tokens
                /\ ck_sel' = r.sel
                /\ ck_unmatched' = r.unmatched
                /\ IF ~need_other
                   THEN /\ ck_checked' = afterSel
                        /\ ck_actions' = nsel
                        /\ ck_log' = checkLog \o report
                        /\ UNCHANGED ck_typed
                   ELSE /\ ck_checked' = ActOn(afterSel, "other", ck_page.how)
                        /\ IF ~ck_page.otherVisible
                           THEN /\ ck_actions' = nsel
                                /\ ck_log' = checkLog \o dbg("skip Other textbox not visible")
                                             \o report
                                /\ UNCHANGED ck_typed
                           ELSE \E done \in (IF ck_page.typeOk THEN {TRUE} ELSE BOOLEAN) :
                                /\ ck_typed' = (IF done THEN Append(ck_typed, txt) ELSE ck_typed)
                                /\ ck_actions' = (IF done THEN nsel + 1 ELSE nsel)
                                /\ ck_log' = checkLog \o dbg("TYPE checkbox other")
                                             \o (IF done THEN <<>> ELSE dbg("warn failed to type"))
                                             \o report
    /\ ck_first' = (IF ck_round = 1 THEN ck_checked' ELSE ck_first)
    /\ ck_pc' = "ret"
    /\ UNCHANGED <<ckInputs, ck_round>>
    /\ UNCHANGED notCk

\* [p.strip() for p in re.split(r"[|;]", raw) if p.strip()]
RECURSIVE StripNonEmpty(_)
StripNonEmpty(parts) ==
    IF parts = <<>> THEN <<>>
    ELSE LET t == strip(Head(parts))
         IN  (IF t = <<>> THEN <<>> ELSE <<t>>) \o StripNonEmpty(Tail(parts))

\* the option labels of the checkbox section, in page order
CkLabels == << <<"a">>, <<"A", " ", "a">> >>

\* click_checkbox: the first checkbox whose name or label holds the text is
\* clicked; with none, the first checkbox is checked
click_checkbox(checked, boxes, text) ==
    LET match == {i \in 1..Len(CkLabels) : ilike(CkLabels[i], text)}
    IN  IF boxes /\ match # {}
        THEN [ok |-> TRUE,
              checked |-> ActOn(checked, Opt(CHOOSE i \in match : \A j \in match : i <= j), "click")]
        ELSE IF boxes THEN [ok |-> TRUE, checked |-> checked \cup {"opt1"}]
        ELSE [ok |-> FALSE, checked |-> checked]

RECURSIVE ClickAll(_, _, _)
ClickAll(checked, boxes, parts) ==
    IF parts = <<>> THEN checked
    ELSE ClickAll(click_checkbox(checked, boxes, Head(parts)).checked, boxes, Tail(parts))

\* process_page, typ == "checkbox-multi"
ProcCheckbox ==
    /\ ck_pc = "call"
    /\ ck_fn = "click_checkbox"
    /\ LET raw == strip(ck_cell)
           parts == StripNonEmpty(SplitOn(raw, {"|", ";"}, <<>>))
       IN  IF raw = <<>>
           THEN /\ ck_actions' = 0
                /\ UNCHANGED <<ck_tokens, ck_checked, ck_log>>
           ELSE /\ ck_tokens' = parts
                /\ ck_checked' = ClickAll(ck_checked, ck_page.boxes, parts)
                /\ ck_actions' = (IF ck_page.boxes THEN Len(parts) ELSE 0)
                /\ ck_log' = <<CkLine("checkbox*")>>
    /\ ck_first' = (IF ck_round = 1 THEN ck_checked' ELSE ck_first)
    /\ ck_pc' = "ret"
    /\ UNCHANGED <<ckInputs, ck_sel, ck_unmatched, ck_round, ck_typed>>
    /\ UNCHANGED notCk

\* the row driver's loop fills the page it is on again
FillAgain ==
    /\ ck_pc = "ret"
    /\ ck_fn \in CkFillFns
    /\ ck_round < MaxRounds
    /\ ck_round' = ck_round + 1
    /\ ck_pc' = "call"
    /\ UNCHANGED <<ckInputs, ck_tokens, ck_sel, ck_unmatched, ck_checked, ck_first,
                   ck_typed, ck_actions, ck_log>>
    /\ UNCHANGED notCk

NextCk ==
    \/ ParseMulti
    \/ ResolveCheckboxes
    \/ ResolveRadio
    \/ PlanCheckboxTargets
    \/ FillCheckbox
    \/ ProcCheckbox
    \/ FillAgain

(***************************************************************************)
(* type_like_human (src/main_auto_fill.py 154-189, src/main.py 400-440).   *)
(* One call; ty_plan says which interaction raises and how the control     *)
(* takes what is written to it.                                            *)
(***************************************************************************)
\* the interaction of the call that raises ("none": none does); "click" is
\* the click (both clicks in main.py), "read" is input_value()
TyFailPoints == {"none", "scroll", "click", "type", "read", "fill", "tab", "mouse"}

\* a control takes the text as written, or loses its last character (maxlength, mask)
TyEffects == {"exact", "cut"}

Taken(text, effect) ==
    IF effect = "exact" \/ text = <<>> THEN text ELSE SubSeq(text, 1, Len(text) - 1)

\* the ways of clearing the call tries in turn: clear(), fill(""), Control+A and
\* Delete in main_auto_fill.py; clear(), Control+A and Delete in main.py
ClearWays(variant) == IF variant = "main_auto_fill" THEN 3 ELSE 2

TyPlans(variant) ==
    [fail : TyFailPoints, clearFails : 0..ClearWays(variant), typed : TyEffects,
     filled : TyEffects]

TyResult(value, events, result) == [value |-> value, events |-> events, result |-> result]

\* the verify block: read the value back, fill(text) on a mismatch; errors are passed over
Verify(text, value, events, plan) ==
    IF plan.fail = "read" THEN [value |-> value, events |-> events]
    ELSE IF norm_space(value) = norm_space(text)
    THEN [value |-> value, events |-> events \o <<"read">>]
    ELSE IF plan.fail = "fill" THEN [value |-> value, events |-> events \o <<"read">>]
    ELSE [value |-> Taken(text, plan.filled), events |-> events \o <<"read", "fill">>]

type_like_human(variant, text, before, plan) ==
    LET cleared == plan.clearFails < ClearWays(variant)
        c0 == IF cleared THEN <<>> ELSE before
        ev1 == <<"scroll", "click">> \o (IF cleared THEN <<"clear">> ELSE <<>>)
        typed == c0 \o Taken(text, plan.typed)
        ev2 == ev1 \o (IF text # <<>> THEN <<"type">> ELSE <<>>)
    IN  IF plan.fail = "scroll" THEN TyResult(before, <<>>, FALSE)
        ELSE IF plan.fail = "click" THEN TyResult(before, <<"scroll">>, FALSE)
        ELSE IF ~cleared /\ variant = "main_auto_fill"
        THEN TyResult(before, <<"scroll", "click">>, FALSE)
        ELSE IF plan.fail = "type" /\ text # <<>> THEN TyResult(c0, ev1, FALSE)
        ELSE IF variant = "main_auto_fill"
        THEN LET v == Verify(text, typed, ev2, plan)
             IN  IF plan.fail = "tab" THEN TyResult(v.value, v.events, FALSE)
                 ELSE IF plan.fail = "mouse"
                 THEN TyResult(v.value, v.events \o <<"tab">>, FALSE)
                 ELSE TyResult(v.value, v.events \o <<"tab", "mouse">>, TRUE)
        ELSE IF plan.fail = "tab" THEN TyResult(typed, ev2, FALSE)
        ELSE LET v == Verify(text, typed, ev2 \o <<"tab">>, plan)
             IN  IF plan.fail = "mouse" THEN TyResult(v.value, v.events, FALSE)
                 ELSE TyResult(v.value, v.events \o <<"mouse">>, TRUE)

\* what the control held before the call
TyBefore == {<<>>, <<"X">>}

IdleTy ==
    /\ ty_pc = "idle"
    /\ ty_variant = "none"
    /\ ty_text = <<>>
    /\ ty_before = <<>>
    /\ ty_plan = <<>>
    /\ ty_value = <<>>
    /\ ty_events = <<>>
    /\ ty_result = FALSE

InitTy ==
    /\ ty_pc = "call"
    /\ ty_variant \in RnVariants
    /\ ty_text \in Strs
    /\ ty_before \in TyBefore
    /\ ty_plan \in TyPlans(ty_variant)
    /\ ty_value = ty_before
    /\ ty_events = <<>>
    /\ ty_result = FALSE

TypeLikeHuman ==
    /\ ty_pc = "call"
    /\ LET r == type_like_human(ty_variant, ty_text, ty_before, ty_plan)
       IN  /\ ty_value' = r.value
           /\ ty_events' = r.events
           /\ ty_result' = r.result
    /\ ty_pc' = "ret"
    /\ UNCHANGED <<ty_variant, ty_text, ty_before, ty_plan>>
    /\ UNCHANGED notTy

(***************************************************************************)
(* choose_combobox_by_text (src/main_auto_fill.py 295-393).  One action is *)
(* one pass of its loop; what the page does in a pass is drawn in it.      *)
(***************************************************************************)
\* for attempt in range(3)
ComboAttempts == 3

\* the texts of the menu's items, in menu order
CbItemLists == { << <<"x">>, <<"X", " ", "x">> >>, << <<"X", "x">>, <<"x">> >>, << <<" ">> >> }

NoItem == 0

\* find_index with the two loops merged: the first item equal to or holding want
find_index_any(items, want) ==
    LET has == {i \in 1..Len(items) : IsSubstr(want, lower(norm_space(items[i])))}
    IN  IF has # {} THEN CHOOSE i \in has : \A j \in has : i <= j ELSE 0

\* find_index: the first item equal to want, else the first item holding it
find_index(items, want) ==
    LET eq == {i \in 1..Len(items) : lower(norm_space(items[i])) = want}
        has == {i \in 1..Len(items) : IsSubstr(want, lower(norm_space(items[i])))}
    IN  IF eq # {} THEN CHOOSE i \in eq : \A j \in eq : i <= j
        ELSE IF has # {} THEN CHOOSE i \in has : \A j \in has : i <= j
        ELSE NoItem

IdleCb ==
    /\ cb_pc = "idle"
    /\ cb_text = <<>>
    /\ cb_items = <<>>
    /\ cb_attempt = 0
    /\ cb_clicked = NoItem
    /\ cb_verified = FALSE
    /\ cb_result = FALSE

InitCb ==
    /\ cb_pc = "loop"
    /\ cb_text \in {t \in Strs : norm_space(t) # <<>>}
    /\ cb_items \in CbItemLists
    /\ cb_attempt = 0
    /\ cb_clicked = NoItem
    /\ cb_verified = FALSE
    /\ cb_result = FALSE

\* one pass of the loop whose menu does not open: return False
ComboNotOpened ==
    /\ cb_pc = "loop"
    /\ cb_attempt < ComboAttempts
    /\ cb_attempt' = cb_attempt + 1
    /\ cb_pc' = "ret"
    /\ cb_result' = FALSE
    /\ UNCHANGED <<cb_text, cb_items, cb_clicked, cb_verified>>
    /\ UNCHANGED notCb

\* one pass in which the menu shows no items (press Escape, continue) or an
\* interaction raises (wait, next pass)
ComboPassFails ==
    /\ cb_pc = "loop"
    /\ cb_attempt < ComboAttempts
    /\ cb_attempt' = cb_attempt + 1
    /\ UNCHANGED <<cb_pc, cb_text, cb_items, cb_clicked, cb_verified, cb_result>>
    /\ UNCHANGED notCb

\* one pass in which the menu opens with its items: find the option; without
\* one return False; else click it, poll the button for the chosen text,
\* press Escape when it does not show it, and return
ComboPassClicks ==
    /\ cb_pc = "loop"
    /\ cb_attempt < ComboAttempts
    /\ cb_attempt' = cb_attempt + 1
    /\ LET idx == find_index(cb_items, lower(norm_space(cb_text)))
       IN  IF idx = NoItem
           THEN /\ cb_result' = FALSE
                /\ UNCHANGED <<cb_clicked, cb_verified>>
           ELSE \E ok \in BOOLEAN :
                /\ cb_clicked' = idx
                /\ cb_verified' = ok
                /\ cb_result' = TRUE
    /\ cb_pc' = "ret"
    /\ UNCHANGED <<cb_text, cb_items>>
    /\ UNCHANGED notCb

\* the loop ran out of passes: return False
ComboGiveUp ==
    /\ cb_pc = "loop"
    /\ cb_attempt = ComboAttempts
    /\ cb_pc' = "exhausted"
    /\ cb_result' = FALSE
    /\ UNCHANGED <<cb_text, cb_items, cb_attempt, cb_clicked, cb_verified>>
    /\ UNCHANGED notCb

NextCb ==
    \/ ComboNotOpened
    \/ ComboPassFails
    \/ ComboPassClicks
    \/ ComboGiveUp

(***************************************************************************)
(* The field loop of a page fill: fill_current_page                       *)
(* (src/main_auto_fill.py 410-604) and process_page (src/processor.py      *)
(* 52-148).  A field's outcome is what its primitive's interaction with    *)
(* the page does: it works, or it raises an interaction error.             *)
(***************************************************************************)
PfVariants == {"fill_current_page", "process_page"}
PfKinds == {"text", "radio", "checkbox"}
PfFieldSet == [kind : PfKinds, outcome : {"ok", "error"}]

PfPages == UNION {[1..n -> PfFieldSet] : n \in 1..MaxFields}

IdlePf ==
    /\ pf_pc = "idle"
    /\ pf_variant = "none"
    /\ pf_debug = FALSE
    /\ pf_fields = <<>>
    /\ pf_i = 0
    /\ pf_attempted = {}
    /\ pf_actions = 0
    /\ pf_log = <<>>

\* process_page takes no debug flag
InitPf ==
    /\ pf_pc = "loop"
    /\ pf_variant \in PfVariants
    /\ pf_debug \in (IF pf_variant = "fill_current_page" THEN BOOLEAN ELSE {FALSE})
    /\ pf_fields \in PfPages
    /\ pf_i = 1
    /\ pf_attempted = {}
    /\ pf_actions = 0
    /\ pf_log = <<>>

\* the primitive of field pf_i works: the action is counted (handled_any in process_page)
FieldDone ==
    /\ pf_pc = "loop"
    /\ pf_i <= Len(pf_fields)
    /\ pf_fields[pf_i].outcome = "ok"
    /\ pf_attempted' = pf_attempted \cup {pf_i}
    /\ pf_actions' = pf_actions + 1
    /\ pf_i' = pf_i + 1
    /\ UNCHANGED <<pf_pc, pf_variant, pf_debug, pf_fields, pf_log>>
    /\ UNCHANGED notPf

\* fill_current_page: type_like_human, click_selector and choose_combobox_by_text
\* catch the error, print a warning under debug and return False
FieldFailsCaught ==
    /\ pf_pc = "loop"
    /\ pf_variant = "fill_current_page"
    /\ pf_i <= Len(pf_fields)
    /\ pf_fields[pf_i].outcome = "error"
    /\ pf_attempted' = pf_attempted \cup {pf_i}
    /\ pf_log' = (IF pf_debug THEN Append(pf_log, pf_i) ELSE pf_log)
    /\ pf_i' = pf_i + 1
    /\ UNCHANGED <<pf_pc, pf_variant, pf_debug, pf_fields, pf_actions>>
    /\ UNCHANGED notPf

\* process_page: click_radio, click_checkbox, select_dropdown and fill_first_text
\* have no handler, and neither has process_page: the error leaves the page fill
FieldFailsRaises ==
    /\ pf_pc = "loop"
    /\ pf_variant = "process_page"
    /\ pf_i <= Len(pf_fields)
    /\ pf_fields[pf_i].outcome = "error"
    /\ pf_attempted' = pf_attempted \cup {pf_i}
    /\ pf_pc' = "raised"
    /\ UNCHANGED <<pf_variant, pf_debug, pf_fields, pf_i, pf_actions, pf_log>>
    /\ UNCHANGED notPf

\* return actions / return handled_any
PageFillReturns ==
    /\ pf_pc = "loop"
    /\ pf_i > Len(pf_fields)
    /\ pf_pc' = "ret"
    /\ UNCHANGED <<pf_variant, pf_debug, pf_fields, pf_i, pf_attempted, pf_actions, pf_log>>
    /\ UNCHANGED notPf

NextPf ==
    \/ FieldDone
    \/ FieldFailsCaught
    \/ FieldFailsRaises
    \/ PageFillReturns

(***************************************************************************)
(* Classification of a heading: the loop over QUESTION_MAP in process_page *)
(* (src/processor.py 60-68, src/mappings.py).  A pattern is the sequence   *)
(* of its literal pieces, ".*" standing between two pieces.                *)
(***************************************************************************)
HeadChars == {" ", "a", "b", "B"}
Headings == SeqsUpTo(HeadChars, MaxHeadLen)

LowerHead(c) == IF c = "B" THEN "b" ELSE LowerChar(c)
lowerHeading(s) == [i \in 1..Len(s) |-> LowerHead(s[i])]

\* QUESTION_MAP at the model's scale: two entries with the same pattern (as the
\* two "GoPass Use Acknowledgement" entries), a pattern with ".*", a pattern
\* that matches whatever the earlier ones match
QUESTION_MAP ==
    << [pattern |-> << <<"a", "b">> >>, type |-> "radio", csv |-> "c1"],
       [pattern |-> << <<"a", "b">> >>, type |-> "radio", csv |-> "c2"],
       [pattern |-> << <<"a">>, <<"B">> >>, type |-> "dropdown", csv |-> "c3"],
       [pattern |-> << <<"b">> >>, type |-> "text", csv |-> "c4"] >>

NoMatch == [type |-> "none", csv |-> "none"]

\* the offsets at which piece occurs in h
Occurs(piece, h) ==
    {i \in 0..(Len(h) - Len(piece)) : SubSeq(h, i + 1, i + Len(piece)) = piece}

\* a matcher that compares the characters as they are written
RECURSIVE SearchPiecesExact(_, _)
SearchPiecesExact(pieces, h) ==
    IF pieces = <<>> THEN TRUE
    ELSE LET occ == Occurs(Head(pieces), h)
         IN  /\ occ # {}
             /\ LET i == CHOOSE k \in occ : \A j \in occ : k <= j
                IN  SearchPiecesExact(Tail(pieces), SubSeq(h, i + Len(Head(pieces)) + 1, Len(h)))

\* re.search(pattern, heading, flags=re.I): the pieces occur in order, without overlap
RECURSIVE SearchPieces(_, _)
SearchPieces(pieces, h) ==
    IF pieces = <<>> THEN TRUE
    ELSE LET occ == Occurs(lowerHeading(Head(pieces)), lowerHeading(h))
         IN  /\ occ # {}
             /\ LET i == CHOOSE k \in occ : \A j \in occ : k <= j
                IN  SearchPieces(Tail(pieces), SubSeq(h, i + Len(Head(pieces)) + 1, Len(h)))

\* for m in QUESTION_MAP: if re.search(...): matched = m; break
RECURSIVE Classify(_, _)
Classify(table, heading) ==
    IF table = <<>> THEN NoMatch
    ELSE IF SearchPieces(Head(table).pattern, heading)
    THEN [type |-> Head(table).type, csv |-> Head(table).csv]
    ELSE Classify(Tail(table), heading)

IdleQm ==
    /\ qm_pc = "idle"
    /\ qm_heading = <<>>
    /\ qm_first = NoMatch
    /\ qm_second = NoMatch

InitQm ==
    /\ qm_pc = "call"
    /\ qm_heading \in Headings
    /\ qm_first = NoMatch
    /\ qm_second = NoMatch

\* process_page classifies the heading of a visible question
ClassifyHeading ==
    /\ qm_pc = "call"
    /\ qm_first' = Classify(QUESTION_MAP, qm_heading)
    /\ qm_pc' = "once"
    /\ UNCHANGED <<qm_heading, qm_second>>
    /\ UNCHANGED notQm

\* the next process_page of the same page classifies the heading again
ClassifyHeadingAgain ==
    /\ qm_pc = "once"
    /\ qm_second' = Classify(QUESTION_MAP, qm_heading)
    /\ qm_pc' = "twice"
    /\ UNCHANGED <<qm_heading, qm_first>>
    /\ UNCHANGED notQm

NextQm ==
    \/ ClassifyHeading
    \/ ClassifyHeadingAgain

(***************************************************************************)
(* wait_no_overlay and the first click of click_selector / type_like_human *)
(* (src/main.py).  Time is counted in polls of 100 ms.                     *)
(***************************************************************************)
\* steps = max(1, timeout_ms // 100) with the default timeout_ms = 3500
OverlaySteps == 35

OvPrimitives == {"click_selector", "type_like_human"}

IdleOv ==
    /\ ov_pc = "idle"
    /\ ov_prim = "none"
    /\ ov_visible = FALSE
    /\ ov_polls = 0
    /\ ov_clicked = FALSE
    /\ ov_under = FALSE

\* The primitive has just been called; the page may or may not show
\* '.portal .overlay'.
InitOv ==
    /\ ov_pc = "poll"
    /\ ov_prim \in OvPrimitives
    /\ ov_visible \in BOOLEAN
    /\ ov_polls = 0
    /\ ov_clicked = FALSE
    /\ ov_under = FALSE

\* page.evaluate says the overlay is absent, hidden or of no size: return.
OverlayGone ==
    /\ ov_pc = "poll"
    /\ ov_polls < OverlaySteps
    /\ ~ov_visible
    /\ ov_pc' = "click"
    /\ UNCHANGED <<ov_prim, ov_visible, ov_polls, ov_clicked, ov_under>>
    /\ UNCHANGED notOv

\* The overlay is visible: wait_for_timeout(100), during which the page may
\* or may not take the overlay away, and poll again.
OverlayWait ==
    /\ ov_pc = "poll"
    /\ ov_polls < OverlaySteps
    /\ ov_visible
    /\ ov_polls' = ov_polls + 1
    /\ ov_visible' \in BOOLEAN
    /\ UNCHANGED <<ov_pc, ov_prim, ov_clicked, ov_under>>
    /\ UNCHANGED notOv

\* page.evaluate raises: `except Exception: return`.
OverlayEvalRaises ==
    /\ ov_pc = "poll"
    /\ ov_polls < OverlaySteps
    /\ ov_pc' = "click"
    /\ UNCHANGED <<ov_prim, ov_visible, ov_polls, ov_clicked, ov_under>>
    /\ UNCHANGED notOv

\* The for loop ran out of steps: the function returns without a word.
OverlayGiveUp ==
    /\ ov_pc = "poll"
    /\ ov_polls = OverlaySteps
    /\ ov_pc' = "click"
    /\ UNCHANGED <<ov_prim, ov_visible, ov_polls, ov_clicked, ov_under>>
    /\ UNCHANGED notOv

\* loc.click(): with the overlay in the way the click waits for the element
\* to receive events; either the overlay goes away in time and the click is
\* dispatched, or the click raises and the force click is tried.
FirstClick ==
    /\ ov_pc = "click"
    /\ \/ /\ ~ov_visible
          /\ ov_pc' = "done"
          /\ ov_clicked' = TRUE
          /\ UNCHANGED <<ov_visible, ov_under>>
       \/ /\ ov_visible
          /\ ov_visible' = FALSE
          /\ ov_pc' = "done"
          /\ ov_clicked' = TRUE
          /\ UNCHANGED ov_under
       \/ /\ ov_visible
          /\ ov_pc' = "force"
          /\ UNCHANGED <<ov_visible, ov_clicked, ov_under>>
    /\ UNCHANGED <<ov_prim, ov_polls>>
    /\ UNCHANGED notOv

\* loc.click(force=True): the pointer event is dispatched with no check of
\* what covers the element.
ForcedClick ==
    /\ ov_pc = "force"
    /\ ov_pc' = "done"
    /\ ov_clicked' = TRUE
    /\ ov_under' = ov_visible
    /\ UNCHANGED <<ov_prim, ov_visible, ov_polls>>
    /\ UNCHANGED notOv

NextOv ==
    \/ OverlayGone
    \/ OverlayWait
    \/ OverlayEvalRaises
    \/ OverlayGiveUp
    \/ FirstClick
    \/ ForcedClick

(***************************************************************************)
(* build_action_plan (src/plan_actions.py): the plan is built section by   *)
(* section, one mapping entry at a time; the entry and its CSV cell are    *)
(* drawn when the entry is reached.                                        *)
(***************************************************************************)
MaxPlanEntries == 1

PlSections == <<"text", "radio", "checkbox", "combobox">>

PlCells == { <<>>, <<" ">>, <<"a">> }

PlRadioCells ==
    { <<>>, <<" ">>, <<"a">>, <<"A">>, <<"a", " ">>, <<"x">>,
      <<"O", "t", "h", "e", "r", ":", " ", "x">>, <<"o", "t", "h", "e", "r">> }

\* a planned action; a key the code leaves out of the dict is ""
Planned(action, csv) == [action |-> action, reason |-> "", csv |-> csv]

\* a SKIP whose reason is left out
SkipBare(reason, csv) == [action |-> "SKIP", reason |-> "", csv |-> csv]

\* {"action": "SKIP", "reason": ..., "csv": header}
Skip(reason, csv) == [action |-> "SKIP", reason |-> reason, csv |-> csv]

\* the index for a radio value: the key itself, else the first key equal to
\* it after _norm and lower; NoOption for None
_resolve_radio_target(value_map, csv_value) ==
    IF csv_value = <<>> THEN NoOption
    ELSE IF \E i \in 1..Len(value_map) : value_map[i].k = csv_value
    THEN value_map[CHOOSE i \in 1..Len(value_map) : value_map[i].k = csv_value].v
    ELSE LET hit == {i \in 1..Len(value_map) :
                        lower(norm_space(value_map[i].k)) = lower(norm_space(csv_value))}
         IN  IF hit = {} THEN NoOption
             ELSE value_map[CHOOSE i \in hit : \A j \in hit : i <= j].v

\* the actions a radio entry adds to the plan
RadioPlan(group, dflt, value_map, other, cell) ==
    IF ~group THEN << Skip("radio missing group", "radio") >>
    ELSE IF dflt /\ norm_space(cell) # <<>> THEN << Planned("CLICK", "radio") >>
    ELSE (IF _resolve_radio_target(value_map, cell) # NoOption
          THEN << Planned("CLICK", "radio") >>
          ELSE << Skip("radio value not mapped or empty", "radio") >>)
         \o (IF other /\ cell # <<>> /\ StartsWithOther(cell) /\ OtherFree(cell) # <<>>
             THEN << Planned("TYPE", "radio (other)") >>
             ELSE <<>>)

\* the actions a checkbox entry adds to the plan
CheckboxPlan(group, value_map, delim, cell) ==
    IF ~group THEN << Skip("checkbox missing group", "checkbox") >>
    ELSE LET r == _resolve_checkbox_targets(value_map, cell, delim)
         IN  [i \in 1..Len(r.sel) |-> Planned("CHECK", "checkbox")]
             \o (IF r.unmatched # <<>>
                 THEN << Skip("checkbox entries not mapped", "checkbox") >>
                 ELSE <<>>)

IdlePl ==
    /\ pl_pc = "idle"
    /\ pl_section = 0
    /\ pl_n = 0
    /\ pl_plan = <<>>

InitPl ==
    /\ pl_pc = "start"
    /\ pl_section = 0
    /\ pl_n = 0
    /\ pl_plan = <<>>

\* start_url, when the mapping has one
PlanStart ==
    /\ pl_pc = "start"
    /\ \E start_url \in BOOLEAN :
          pl_plan' = (IF start_url THEN << Planned("NAVIGATE", "") >> ELSE <<>>)
    /\ pl_pc' = "entries"
    /\ pl_section' = 1
    /\ UNCHANGED pl_n
    /\ UNCHANGED notPl

PlAt(section) ==
    /\ pl_pc = "entries"
    /\ PlSections[pl_section] = section
    /\ pl_n < MaxPlanEntries

PlanText ==
    /\ PlAt("text")
    /\ \E hasSel \in BOOLEAN, val \in PlCells :
          IF ~hasSel
          THEN /\ pl_pc' = "raised"      \* _to_css raises ValueError
               /\ UNCHANGED <<pl_plan, pl_n>>
          ELSE /\ pl_plan' = Append(pl_plan,
                                    IF norm_space(val) # <<>> THEN Planned("TYPE", "text")
                                    ELSE Skip("empty CSV", "text"))
               /\ pl_n' = pl_n + 1
               /\ UNCHANGED pl_pc
    /\ UNCHANGED pl_section
    /\ UNCHANGED notPl

PlanRadio ==
    /\ PlAt("radio")
    /\ \E group \in BOOLEAN, dflt \in BOOLEAN, value_map \in CkMaps, other \in BOOLEAN,
          cell \in PlRadioCells :
          pl_plan' = pl_plan \o RadioPlan(group, dflt, value_map, other, cell)
    /\ pl_n' = pl_n + 1
    /\ UNCHANGED <<pl_pc, pl_section>>
    /\ UNCHANGED notPl

PlanCheckbox ==
    /\ PlAt("checkbox")
    /\ \E group \in BOOLEAN, value_map \in CkMaps, delim \in CkDelims, cell \in FillCells :
          pl_plan' = pl_plan \o CheckboxPlan(group, value_map, delim, cell)
    /\ pl_n' = pl_n + 1
    /\ UNCHANGED <<pl_pc, pl_section>>
    /\ UNCHANGED notPl

PlanCombobox ==
    /\ PlAt("combobox")
    /\ \E cid \in BOOLEAN, desired \in PlCells :
          pl_plan' = Append(pl_plan,
                            IF cid /\ norm_space(desired) # <<>>
                            THEN Planned("COMBOBOX", "combobox")
                            ELSE Skip("combobox empty or missing id", "combobox"))
    /\ pl_n' = pl_n + 1
    /\ UNCHANGED <<pl_pc, pl_section>>
    /\ UNCHANGED notPl

\* the for loop over a section's entries is over
PlanSectionDone ==
    /\ pl_pc = "entries"
    /\ pl_n' = 0
    /\ IF pl_section < Len(PlSections)
       THEN pl_section' = pl_section + 1 /\ UNCHANGED pl_pc
       ELSE pl_pc' = "info" /\ UNCHANGED pl_section
    /\ UNCHANGED pl_plan
    /\ UNCHANGED notPl

\* the CSV columns no entry names, then `return actions`
PlanInfo ==
    /\ pl_pc = "info"
    /\ \E unused \in BOOLEAN :
          pl_plan' = pl_plan \o (IF unused THEN << Planned("INFO", "") >> ELSE <<>>)
    /\ pl_pc' = "ret"
    /\ UNCHANGED <<pl_section, pl_n>>
    /\ UNCHANGED notPl

NextPl ==
    \/ PlanStart
    \/ PlanText
    \/ PlanRadio
    \/ PlanCheckbox
    \/ PlanCombobox
    \/ PlanSectionDone
    \/ PlanInfo

(***************************************************************************)
(* The composite name question (First, Middle, Last): the QID9 part of     *)
(* fill_flow (src/survey_flow.py) and the name3 part of process_page with  *)
(* fill_all_text_inputs (src/processor.py, src/helpers_generic.py).        *)
(***************************************************************************)
NmHandlers == {"fill_flow", "process_page"}

NameCells == { <<>>, <<" ">>, <<"x">> }

\* what the three inputs hold before the page is handled
NmPrefills == { <<>>, <<"X">> }

\* one write into field i: its value and the count of writes it received
SetField(st, i, v) ==
    [value |-> [st.value EXCEPT ![i] = v], sets |-> [st.sets EXCEPT ![i] = @ + 1]]

\* for i, v in enumerate(values): if i < len(inputs): inputs[i].fill(v or "")
RECURSIVE fill_all_text_inputs(_, _, _)
fill_all_text_inputs(st, values, i) ==
    IF i > Len(values) THEN st
    ELSE fill_all_text_inputs(IF i <= Len(st.value) THEN SetField(st, i, values[i]) ELSE st,
                              values, i + 1)

\* page.fill of #form-text-input-QID9-1, -2, -3 inside one try; the fill
\* numbered raiseAt (0: none) raises and `except Exception: pass` ends the block
RECURSIVE FillById(_, _, _, _)
FillById(st, values, i, raiseAt) ==
    IF i > Len(values) \/ i = raiseAt THEN st
    ELSE FillById(SetField(st, i, values[i]), values, i + 1, raiseAt)

IdleNm ==
    /\ nm_pc = "idle"
    /\ nm_handler = "none"
    /\ nm_cols = <<>>
    /\ nm_fields = [value |-> <<>>, sets |-> <<>>]

InitNm ==
    /\ nm_pc = "call"
    /\ nm_handler \in NmHandlers
    /\ nm_cols \in [1..3 -> NameCells]
    /\ \E pre \in NmPrefills :
          nm_fields = [value |-> [i \in 1..3 |-> pre], sets |-> [i \in 1..3 |-> 0]]

\* the stripped cells: get_val(...) / get(row, c).strip()
NameVals == [i \in 1..3 |-> strip(nm_cols[i])]

\* fill_flow: fill_text_in_question(QID9, first) when first is not empty, then
\* the three page.fill calls
NameFillFlow ==
    /\ nm_pc = "call"
    /\ nm_handler = "fill_flow"
    /\ \E raiseAt \in 0..3 :
          nm_fields' = FillById(IF NameVals[1] # <<>>
                                THEN SetField(nm_fields, 1, NameVals[1])
                                ELSE nm_fields,
                                NameVals, 1, raiseAt)
    /\ nm_pc' = "ret"
    /\ UNCHANGED <<nm_handler, nm_cols>>
    /\ UNCHANGED notNm

\* process_page, typ == "name3": if any(vals): fill_all_text_inputs(...)
NameProcessPage ==
    /\ nm_pc = "call"
    /\ nm_handler = "process_page"
    /\ nm_fields' = (IF \E i \in 1..3 : NameVals[i] # <<>>
                     THEN fill_all_text_inputs(nm_fields, NameVals, 1)
                     ELSE nm_fields)
    /\ nm_pc' = "ret"
    /\ UNCHANGED <<nm_handler, nm_cols>>
    /\ UNCHANGED notNm

NextNm ==
    \/ NameFillFlow
    \/ NameProcessPage

(***************************************************************************)
(* click_next_and_wait (src/main.py): the click on Next, the poll for a    *)
(* change of the visible content and the re-clicks.  The page is a second  *)
(* process: a click it has taken starts a transition that shows the next   *)
(* page some time later.  nw_page counts the pages shown since the call.   *)
(***************************************************************************)
\* for i in range(120)
NextPolls == 120

\* if i in (20, 40, 80): re-click Next
NudgeAt == {20, 40, 80}

IdleNw ==
    /\ nw_pc = "idle"
    /\ nw_i = 0
    /\ nw_page = 0
    /\ nw_pending = FALSE
    /\ nw_clicks = 0

InitNw ==
    /\ nw_pc = "click"
    /\ nw_i = 0
    /\ nw_page = 0
    /\ nw_pending = FALSE
    /\ nw_clicks = 0

\* click_selector(page, "#next-button"): the page takes the click and starts
\* its transition, or the click is swallowed
NextFirstClick ==
    /\ nw_pc = "click"
    /\ nw_pending' \in BOOLEAN
    /\ nw_clicks' = 1
    /\ nw_pc' = "poll"
    /\ UNCHANGED <<nw_i, nw_page>>
    /\ UNCHANGED notNw

\* the page: a transition that was started shows the next page
PageTransition ==
    /\ nw_pc \in {"poll", "reclick"}
    /\ nw_pending
    /\ nw_page' = nw_page + 1
    /\ nw_pending' = FALSE
    /\ UNCHANGED <<nw_pc, nw_i, nw_clicks>>
    /\ UNCHANGED notNw

\* one round of the loop: wait 140 ms, read the visible content, break when it
\* differs from the content before the click, else nudge at i = 20, 40, 80
NextPoll ==
    /\ nw_pc = "poll"
    /\ nw_i < NextPolls
    /\ IF nw_page # 0
       THEN nw_pc' = "settle" /\ UNCHANGED nw_i
       ELSE IF nw_i \in NudgeAt
       THEN nw_pc' = "reclick" /\ UNCHANGED nw_i
       ELSE nw_i' = nw_i + 1 /\ UNCHANGED nw_pc
    /\ UNCHANGED <<nw_page, nw_pending, nw_clicks>>
    /\ UNCHANGED notNw

\* _dismiss_overlays, then click_selector(page, "#next-button") again: the
\* click goes to the Next button of the page that is shown when it is dispatched
NextReclick ==
    /\ nw_pc = "reclick"
    /\ nw_pending' \in {nw_pending, TRUE}
    /\ nw_clicks' = nw_clicks + 1
    /\ nw_i' = nw_i + 1
    /\ nw_pc' = "poll"
    /\ UNCHANGED nw_page
    /\ UNCHANGED notNw

\* the loop ran out of rounds
NextPollsOver ==
    /\ nw_pc = "poll"
    /\ nw_i = NextPolls
    /\ nw_pc' = "settle"
    /\ UNCHANGED <<nw_i, nw_page, nw_pending, nw_clicks>>
    /\ UNCHANGED notNw

\* wait_for_timeout(150) and return
NextSettle ==
    /\ nw_pc = "settle"
    /\ nw_pc' = "done"
    /\ UNCHANGED <<nw_i, nw_page, nw_pending, nw_clicks>>
    /\ UNCHANGED notNw

NextNw ==
    \/ NextFirstClick
    \/ PageTransition
    \/ NextPoll
    \/ NextReclick
    \/ NextPollsOver
    \/ NextSettle

(***************************************************************************)
(* open_combobox (src/main_auto_fill.py 247-293).  One action is one pass  *)
(* of its loop; how far the pass gets, and what the poll of the menu       *)
(* observes, is drawn in it.                                               *)
(***************************************************************************)
\* how far one pass gets: scroll_into_view_if_needed raises; the forced
\* click returns; the click raises and focus + Enter return; those raise too
\* and the events are dispatched by script; the script raises as well
OcPaths == {"scroll raises", "click", "focus", "dispatch", "dispatch raises"}

\* the open methods a pass has called, in order
OcCalled(path) ==
    CASE path = "scroll raises" -> <<>>
      [] path = "click" -> <<"click">>
      [] path = "focus" -> <<"click", "focus">>
      [] OTHER -> <<"click", "focus", "dispatch">>

IdleOc ==
    /\ oc_pc = "idle"
    /\ oc_debug = FALSE
    /\ oc_attempt = 0
    /\ oc_tried = <<>>
    /\ oc_seen = FALSE
    /\ oc_result = FALSE
    /\ oc_log = <<>>

InitOc ==
    /\ oc_pc = "loop"
    /\ oc_debug \in BOOLEAN
    /\ oc_attempt = 0
    /\ oc_tried = <<>>
    /\ oc_seen = FALSE
    /\ oc_result = FALSE
    /\ oc_log = <<>>

\* one pass of `for attempt in range(3)`: an error of the pass is caught and
\* logged, a poll that sees the menu open returns True, a poll that does not
\* is logged; every pass that does not return waits 200 ms and goes on
OpenAttempt ==
    /\ oc_pc = "loop"
    /\ oc_attempt < ComboAttempts
    /\ oc_attempt' = oc_attempt + 1
    /\ \E path \in OcPaths, poll \in {"open", "closed", "raises"} :
          /\ oc_tried' = oc_tried \o OcCalled(path)
          /\ IF path \in {"scroll raises", "dispatch raises"} \/ poll = "raises"
             THEN /\ oc_log' = (IF oc_debug THEN Append(oc_log, "failed") ELSE oc_log)
                  /\ UNCHANGED <<oc_pc, oc_seen, oc_result>>
             ELSE IF poll = "open"
             THEN /\ oc_seen' = TRUE
                  /\ oc_result' = TRUE
                  /\ oc_pc' = "ret"
                  /\ UNCHANGED oc_log
             ELSE /\ oc_log' = (IF oc_debug THEN Append(oc_log, "did not expose menu") ELSE oc_log)
                  /\ UNCHANGED <<oc_pc, oc_seen, oc_result>>
    /\ UNCHANGED oc_debug
    /\ UNCHANGED notOc

\* the loop ran out of passes: warn under debug and return False
OpenGiveUp ==
    /\ oc_pc = "loop"
    /\ oc_attempt = ComboAttempts
    /\ oc_pc' = "ret"
    /\ oc_result' = FALSE
    /\ oc_log' = (IF oc_debug THEN Append(oc_log, "could not open") ELSE oc_log)
    /\ UNCHANGED <<oc_debug, oc_attempt, oc_tried, oc_seen>>
    /\ UNCHANGED notOc

NextOc ==
    \/ OpenAttempt
    \/ OpenGiveUp

(***************************************************************************)
(* The row selection of run() (src/main_auto_fill.py 724-760,              *)
(* src/main.py 964-997).  An optional argument is the empty set when it is *)
(* not given and {v} when it is given as v.                                *)
(***************************************************************************)
\* the largest number of data rows of the CSV
MaxRowCount == 2

RsVariants == {"main_auto_fill", "main"}

\* the integers an index argument is given as
RsArgs == -1..MaxRowCount

RsOptional == {{}} \cup {{v} : v \in RsArgs}

Given(arg) == CHOOSE v \in arg : TRUE

\* range(a, b + 1)
RangeList(a, b) == IF a > b THEN <<>> ELSE [i \in 1..(b - a + 1) |-> a + i - 1]

Max2(x, y) == IF x >= y THEN x ELSE y

Min2(x, y) == IF x <= y THEN x ELSE y

IdleRs ==
    /\ rs_pc = "idle"
    /\ rs_variant = "none"
    /\ rs_n = 0
    /\ rs_opts = <<>>
    /\ rs_indices = <<>>
    /\ rs_error = FALSE
    /\ rs_k = 0
    /\ rs_driven = <<>>

\* parse_args: main_auto_fill.py takes --all, --row-index, --start-index and
\* --end-index, each index optional; main.py takes --all-rows, --row-index
\* with default 0 and --row-range START END
InitRs ==
    /\ rs_pc = "select"
    /\ rs_variant \in RsVariants
    /\ rs_n \in 0..MaxRowCount
    /\ rs_opts \in [all : BOOLEAN, row_index : RsOptional, start : RsOptional, end : RsOptional]
    /\ rs_variant = "main" =>
          /\ rs_opts.row_index # {}
          /\ (rs_opts.start = {}) = (rs_opts.end = {})
    /\ rs_indices = <<>>
    /\ rs_error = FALSE
    /\ rs_k = 0
    /\ rs_driven = <<>>

\* run of main_auto_fill.py up to the list of indices
SelectRowsAutoFill ==
    /\ rs_pc = "select"
    /\ rs_variant = "main_auto_fill"
    /\ LET o == rs_opts
           start0 == IF o.start = {} THEN 0 ELSE Given(o.start)
           end0 == IF o.end = {} \/ Given(o.end) < 0 THEN rs_n - 1 ELSE Given(o.end)
           start == IF start0 < 0 THEN 0 ELSE start0
           end == IF end0 >= rs_n THEN rs_n - 1 ELSE end0
       IN  IF rs_n = 0
           THEN rs_error' = TRUE /\ rs_pc' = "ret" /\ UNCHANGED rs_indices
           ELSE IF o.all
           THEN rs_indices' = RangeList(0, rs_n - 1) /\ rs_pc' = "drive" /\ UNCHANGED rs_error
           ELSE IF o.row_index # {}
           THEN IF Given(o.row_index) < 0 \/ Given(o.row_index) >= rs_n
                THEN rs_error' = TRUE /\ rs_pc' = "ret" /\ UNCHANGED rs_indices
                ELSE rs_indices' = <<Given(o.row_index)>> /\ rs_pc' = "drive" /\ UNCHANGED rs_error
           ELSE IF start > end
           THEN rs_error' = TRUE /\ rs_pc' = "ret" /\ UNCHANGED rs_indices
           ELSE rs_indices' = RangeList(start, end) /\ rs_pc' = "drive" /\ UNCHANGED rs_error
    /\ UNCHANGED <<rs_variant, rs_n, rs_opts, rs_k, rs_driven>>
    /\ UNCHANGED notRs

\* run of main.py up to the list of indices
SelectRowsMain ==
    /\ rs_pc = "select"
    /\ rs_variant = "main"
    /\ LET o == rs_opts
       IN  IF rs_n = 0
           THEN rs_error' = TRUE /\ rs_pc' = "ret" /\ UNCHANGED rs_indices
           ELSE IF o.all
           THEN rs_indices' = RangeList(0, rs_n - 1) /\ rs_pc' = "drive" /\ UNCHANGED rs_error
           ELSE IF o.start # {}
           THEN /\ rs_indices' = RangeList(Max2(0, Given(o.start)), Min2(rs_n - 1, Given(o.end)))
                /\ rs_pc' = "drive"
                /\ UNCHANGED rs_error
           ELSE IF ~(0 <= Given(o.row_index) /\ Given(o.row_index) < rs_n)
           THEN rs_error' = TRUE /\ rs_pc' = "ret" /\ UNCHANGED rs_indices
           ELSE rs_indices' = <<Given(o.row_index)>> /\ rs_pc' = "drive" /\ UNCHANGED rs_error
    /\ UNCHANGED <<rs_variant, rs_n, rs_opts, rs_k, rs_driven>>
    /\ UNCHANGED notRs

\* one pass of the loop over indices: the row is driven; an error of the row
\* is caught in main.py and ends run in main_auto_fill.py
DriveRow ==
    /\ rs_pc = "drive"
    /\ rs_k < Len(rs_indices)
    /\ rs_k' = rs_k + 1
    /\ rs_driven' = Append(rs_driven, rs_indices[rs_k + 1])
    /\ \E raises \in BOOLEAN :
          rs_pc' = (IF raises /\ rs_variant = "main_auto_fill" THEN "raised" ELSE "drive")
    /\ UNCHANGED <<rs_variant, rs_n, rs_opts, rs_indices, rs_error>>
    /\ UNCHANGED notRs

\* the loop is over
DriveDone ==
    /\ rs_pc = "drive"
    /\ rs_k = Len(rs_indices)
    /\ rs_pc' = "ret"
    /\ UNCHANGED <<rs_variant, rs_n, rs_opts, rs_indices, rs_error, rs_k, rs_driven>>
    /\ UNCHANGED notRs

NextRs ==
    \/ SelectRowsAutoFill
    \/ SelectRowsMain
    \/ DriveRow
    \/ DriveDone

(***************************************************************************)
(* Specifications                                                          *)
(***************************************************************************)
StartGetVal == InitGv /\ IdleFo /\ IdleRn /\ IdleFp /\ IdleCk /\ IdleTy /\ IdleCb /\ IdlePf /\ IdleQm /\ IdleOv /\ IdlePl /\ IdleNm /\ IdleNw /\ IdleOc /\ IdleRs

SpecGetVal == StartGetVal /\ [][GetVal]_vars

StartFillOne == InitFo /\ IdleGv /\ IdleRn /\ IdleFp /\ IdleCk /\ IdleTy /\ IdleCb /\ IdlePf /\ IdleQm /\ IdleOv /\ IdlePl /\ IdleNm /\ IdleNw /\ IdleOc /\ IdleRs

SpecFillOne == StartFillOne /\ [][NextFo]_vars

StartRun == InitRn /\ IdleGv /\ IdleFo /\ IdleFp /\ IdleCk /\ IdleTy /\ IdleCb /\ IdlePf /\ IdleQm /\ IdleOv /\ IdlePl /\ IdleNm /\ IdleNw /\ IdleOc /\ IdleRs

SpecRun == StartRun /\ [][NextRn]_vars

StartFillPage == InitFp /\ IdleGv /\ IdleFo /\ IdleRn /\ IdleCk /\ IdleTy /\ IdleCb /\ IdlePf /\ IdleQm /\ IdleOv /\ IdlePl /\ IdleNm /\ IdleNw /\ IdleOc /\ IdleRs

SpecFillPage == StartFillPage /\ [][NextFp]_vars

StartCheckbox == InitCk /\ IdleGv /\ IdleFo /\ IdleRn /\ IdleFp /\ IdleTy /\ IdleCb /\ IdlePf /\ IdleQm /\ IdleOv /\ IdlePl /\ IdleNm /\ IdleNw /\ IdleOc /\ IdleRs

SpecCheckbox == StartCheckbox /\ [][NextCk]_vars

StartType == InitTy /\ IdleGv /\ IdleFo /\ IdleRn /\ IdleFp /\ IdleCk /\ IdleCb /\ IdlePf /\ IdleQm /\ IdleOv /\ IdlePl /\ IdleNm /\ IdleNw /\ IdleOc /\ IdleRs

SpecType == StartType /\ [][TypeLikeHuman]_vars

StartCombo == InitCb /\ IdleGv /\ IdleFo /\ IdleRn /\ IdleFp /\ IdleCk /\ IdleTy /\ IdlePf /\ IdleQm /\ IdleOv /\ IdlePl /\ IdleNm /\ IdleNw /\ IdleOc /\ IdleRs

SpecCombo == StartCombo /\ [][NextCb]_vars

StartPageFill == InitPf /\ IdleGv /\ IdleFo /\ IdleRn /\ IdleFp /\ IdleCk /\ IdleTy /\ IdleCb /\ IdleQm /\ IdleOv /\ IdlePl /\ IdleNm /\ IdleNw /\ IdleOc /\ IdleRs

SpecPageFill == StartPageFill /\ [][NextPf]_vars

StartClassify == InitQm /\ IdleGv /\ IdleFo /\ IdleRn /\ IdleFp /\ IdleCk /\ IdleTy /\ IdleCb /\ IdlePf /\ IdleOv /\ IdlePl /\ IdleNm /\ IdleNw /\ IdleOc /\ IdleRs

SpecClassify == StartClassify /\ [][NextQm]_vars

StartOverlay == InitOv /\ IdleGv /\ IdleFo /\ IdleRn /\ IdleFp /\ IdleCk /\ IdleTy /\ IdleCb /\ IdlePf /\ IdleQm /\ IdlePl /\ IdleNm /\ IdleNw /\ IdleOc /\ IdleRs

SpecOverlay == StartOverlay /\ [][NextOv]_vars

StartPlan == InitPl /\ IdleGv /\ IdleFo /\ IdleRn /\ IdleFp /\ IdleCk /\ IdleTy /\ IdleCb /\ IdlePf /\ IdleQm /\ IdleOv /\ IdleNm /\ IdleNw /\ IdleOc /\ IdleRs

SpecPlan == StartPlan /\ [][NextPl]_vars

StartName == InitNm /\ IdleGv /\ IdleFo /\ IdleRn /\ IdleFp /\ IdleCk /\ IdleTy /\ IdleCb /\ IdlePf /\ IdleQm /\ IdleOv /\ IdlePl /\ IdleNw /\ IdleOc /\ IdleRs

SpecName == StartName /\ [][NextNm]_vars

StartNextWait == InitNw /\ IdleGv /\ IdleFo /\ IdleRn /\ IdleFp /\ IdleCk /\ IdleTy /\ IdleCb /\ IdlePf /\ IdleQm /\ IdleOv /\ IdlePl /\ IdleNm /\ IdleOc /\ IdleRs

SpecNextWait == StartNextWait /\ [][NextNw]_vars

StartOpenCombo == InitOc /\ IdleGv /\ IdleFo /\ IdleRn /\ IdleFp /\ IdleCk /\ IdleTy /\ IdleCb /\ IdlePf /\ IdleQm /\ IdleOv /\ IdlePl /\ IdleNm /\ IdleNw /\ IdleRs

SpecOpenCombo == StartOpenCombo /\ [][NextOc]_vars

StartSelect == InitRs /\ IdleGv /\ IdleFo /\ IdleRn /\ IdleFp /\ IdleCk /\ IdleTy /\ IdleCb /\ IdlePf /\ IdleQm /\ IdleOv /\ IdlePl /\ IdleNm /\ IdleNw /\ IdleOc

SpecSelect == StartSelect /\ [][NextRs]_vars

\* one sequential program: whatever step is pending is eventually taken
FairSpecRun == SpecRun /\ WF_vars(NextRn)

(***************************************************************************)
(* Claims                                                                  *)
(***************************************************************************)
FoInLoop == fo_pc \in {"loop", "process", "advance", "thanks", "sig"}

\* C1: a row whose signature stayed equal over 3 consecutive iterations is no
\* longer in its loop (no further process_page, no further Next click), and a
\* row whose visible questions never changed runs at most 3 iterations.
C1_StuckAbortsRow ==
    /\ (FoInLoop => fo_same < StuckLimit)
    /\ (fo_same >= StuckLimit => fo_exit = "stuck" \/ fo_pc \in {"goto", "crashed"})
    /\ (~fo_qsChanged => fo_nproc <= StuckLimit)

C1_Witness ==
    /\ fo_pc = "rowdone"
    /\ fo_exit = "stuck"
    /\ ~fo_qsChanged
    /\ fo_page.next
    /\ fo_nproc = StuckLimit

\* C2: a row makes at most 120 process_page calls, at most one Next click in
\* each iteration, and leaves the loop once 120 iterations are done.
C2_IterationCeiling ==
    /\ fo_nproc <= MaxSteps
    /\ fo_iterClicks <= 1
    /\ (fo_step >= MaxSteps => fo_pc \in {"loop", "rowdone", "goto", "end", "crashed"})

C2_Witness ==
    /\ fo_pc = "rowdone"
    /\ fo_exit = "ceiling"
    /\ fo_nproc = MaxSteps
    /\ fo_qsChanged

\* C7: once the Thank-you text was seen after an advance, the row is out of
\* its loop: no page fill and no Next click follows, whatever the stuck counter.
C7_ThanksStopsRow ==
    fo_sawThanks => (~FoInLoop /\ (fo_pc = "rowdone" => fo_exit = "thanks"))

C7_Witness ==
    /\ fo_sawThanks
    /\ fo_pc = "rowdone"
    /\ fo_stuck = StuckLimit - 1
    /\ fo_page.next

RnInLoop == rn_pc \in {"fill", "next", "endcheck"}

\* C3: the per-row loop of the mapping-driven filler always terminates: a row
\* that entered the loop eventually leaves it (halt, done or an error).
C3_RowLoopTerminates == (rn_pc = "fill") ~> ~RnInLoop

\* C4: a row that raises never keeps later rows from being driven: when the
\* run is over, every selected row has been driven.
C4_FailingRowDoesNotHaltBatch ==
    rn_pc \in {"finished", "aborted"} => rn_driven = RnRows

\* C5: the session of a row is closed before the next row's session is
\* launched, on the normal and on the failing path: never two open sessions.
C5_OneSessionAtATime ==
    /\ Cardinality(rn_open) <= 1
    /\ (rn_pc = "launch" => rn_open = {})

\* C6: with manual-continue off, the forward control is clicked exactly when it
\* is present and enabled, whether or not an action executed; otherwise the row
\* halts without a click, and a row that left its loop does not re-enter it.
C6_AdvanceIffNextEnabled ==
    [][/\ (rn_pc = "next" /\ ~rn_manual) =>
            /\ rn_clicked' = NextOk(rn_page)
            /\ (NextOk(rn_page) => rn_pc' = "endcheck")
            /\ (~NextOk(rn_page) => rn_pc' = "close" /\ rn_exit' = "halt" /\ rn_page' = rn_page)
       /\ (rn_pc = "close" => ~RnInLoop')
       /\ (~RnInLoop /\ RnInLoop' => rn_pc = "nav")]_vars

C6_Witness ==
    /\ rn_pc = "endcheck"
    /\ ~rn_manual
    /\ rn_did = 0
    /\ rn_clicked
    /\ rn_page.questions

C6_WitnessHalt ==
    /\ rn_pc = "close"
    /\ ~rn_manual
    /\ rn_did > 0
    /\ rn_exit = "halt"
    /\ ~rn_clicked
    /\ rn_page.next = "disabled"

\* C8: get_val returns the trimmed value of the first candidate, in order, that
\* is a key of the row with a non-empty trimmed value, and the default when no
\* candidate qualifies.
C8_GetValFirstNonEmpty ==
    gv_pc = "ret" =>
        LET ok(i) == gv_hs[i] \in DOMAIN gv_row /\ strip(gv_row[gv_hs[i]]) # <<>>
        IN  IF \E i \in 1..Len(gv_hs) : ok(i)
            THEN \E i \in 1..Len(gv_hs) :
                    /\ ok(i)
                    /\ \A j \in 1..(i - 1) : ~ok(j)
                    /\ gv_result = strip(gv_row[gv_hs[i]])
                    /\ gv_result # <<>>
                    /\ gv_result[1] # " " /\ gv_result[Len(gv_result)] # " "
            ELSE gv_result = gv_default

C8_Witness ==
    /\ gv_pc = "ret"
    /\ gv_hs = <<"h1", "h2">>
    /\ DOMAIN gv_row = {"h1", "h2"}
    /\ gv_row["h1"] = <<" ", " ">>
    /\ gv_row["h2"] = <<" ", "x">>
    /\ gv_result = <<"x">>

C8_WitnessAbsent ==
    /\ gv_pc = "ret"
    /\ gv_hs = <<"h3", "h1">>
    /\ DOMAIN gv_row = {"h1"}
    /\ gv_row["h1"] = <<" ">>
    /\ gv_default = <<"x", "x">>
    /\ gv_result = gv_default

(***************************************************************************)
(* Per-field fillers: absent values and unmapped single-choice values       *)
(***************************************************************************)
\* none of the field's candidate columns holds a non-empty value
FieldAbsent ==
    CASE fp_handler = "clipper" -> FirstNonEmpty(fp_row, ClipperCols) = <<>>
      [] fp_handler = "fill_text" ->
            /\ norm_space(RowGet(fp_row, "h1")) = <<>>
            /\ fp_entry.default_from_csv => norm_space(RowGet(fp_row, "h2")) = <<>>
      [] fp_handler = "fill_radio" -> norm_space(RowGet(fp_row, "h1")) = <<>>
      [] fp_handler \in {"proc_radio", "proc_radio_yn"} -> strip(get(fp_row, "h1")) = <<>>
      [] OTHER -> FALSE

\* C9: when none of a field's candidate columns holds a non-empty value, the
\* handler returns having typed nothing into the control and selected no
\* option of the group, and it returns normally (the row keeps being driven).
C9_AbsentFieldSkipped ==
    (fp_pc \in {"ret", "exit"} /\ FieldAbsent)
        => /\ fp_typed = NoText
           /\ fp_selected = NoOption
           /\ fp_pc = "ret"

\* a single-choice group on the page whose row value is present, matches no
\* key (no label, for click_radio) and has no "other" free-text slot
UnmappedNoOther ==
    CASE fp_handler = "fill_radio" ->
            /\ norm_space(RowGet(fp_row, "h1")) # <<>>
            /\ resolve_radio_selector(ValueMap, norm_space(RowGet(fp_row, "h1"))) = NoOption
            /\ ~fp_entry.other
            /\ ~fp_entry.default_if_nonempty
            /\ fp_page.present
      [] fp_handler = "proc_radio" ->
            LET want == strip(get(fp_row, "h1"))
            IN  /\ want # <<>>
                /\ \A i \in 1..Len(fp_page.labels) :
                      /\ ~ilike(norm_space(fp_page.labels[i]), norm_space(want))
                      /\ ~IsSubstr(norm_space(want), norm_space(fp_page.labels[i]))
      [] OTHER -> FALSE

\* C10: for a single-choice group whose value is present but unmapped and that
\* has no "other" slot, the handler returns with no option clicked or checked,
\* the action count not increased, and exactly one "value not mapped" skip
\* record in the log.
C10_UnmappedRadioSkipped ==
    (fp_pc = "ret" /\ UnmappedNoOther)
        => /\ fp_selected = NoOption
           /\ fp_actions = 0
           /\ Cardinality({i \in DOMAIN fp_log : fp_log[i] = "skip value not mapped"}) = 1

\* a single-choice group on the page whose row value is present and matches no
\* key, with an "other" free-text slot configured and shown, on a page whose
\* controls respond
UnmappedWithOther ==
    /\ fp_handler = "fill_radio"
    /\ norm_space(RowGet(fp_row, "h1")) # <<>>
    /\ resolve_radio_selector(ValueMap, norm_space(RowGet(fp_row, "h1"))) = NoOption
    /\ fp_entry.other
    /\ ~fp_entry.default_if_nonempty
    /\ fp_page.present /\ fp_page.ok /\ fp_page.otherVisible

\* C11: for a single-choice group whose value is present but unmapped and that
\* has an "other" slot, the "other" option is selected and the text typed into
\* the companion field is the value with a leading "other" / "other:" prefix
\* removed.
C11_OtherPrefixRemoved ==
    (fp_pc = "ret" /\ UnmappedWithOther)
        => /\ fp_selected = "other"
           /\ fp_typed = <<OtherFree(norm_space(RowGet(fp_row, "h1")))>>

(***************************************************************************)
(* Multi-choice cells                                                      *)
(***************************************************************************)
\* the characters a cell is split on
SplitChars(delim) == IF delim = NoDelim THEN {";", ","} ELSE {delim}

\* the places a cell is cut at: before it, after it, and at every delimiter
Cuts(cell, delim) ==
    {0, Len(cell) + 1} \cup {i \in 1..Len(cell) : cell[i] \in SplitChars(delim)}

NthOf(S, n) == CHOOSE p \in S : Cardinality({q \in S : q < p}) = n - 1

\* the n-th piece of the cell, whitespace-normalized
PieceAt(cell, delim, n) ==
    norm_space(SubSeq(cell, NthOf(Cuts(cell, delim), n) + 1,
                      NthOf(Cuts(cell, delim), n + 1) - 1))

KeptPieces(cell, delim) ==
    {n \in 1..(Cardinality(Cuts(cell, delim)) - 1) : PieceAt(cell, delim, n) # <<>>}

\* the tokens of the cell are its non-empty normalized pieces, in order
TokensAreThePieces(tokens, cell, delim) ==
    /\ Len(tokens) = Cardinality(KeptPieces(cell, delim))
    /\ \A j \in 1..Len(tokens) :
          tokens[j] = PieceAt(cell, delim, NthOf(KeptPieces(cell, delim), j))

\* the keys a token may resolve through
ExactKeys(value_map, t) == {i \in 1..Len(value_map) : value_map[i].k = t}
LooseKeys(value_map, t) ==
    {i \in 1..Len(value_map) : norm_case(value_map[i].k) = norm_case(t)}

C12_WitnessLoose ==
    /\ ck_pc = "ret"
    /\ ck_fn = "resolve_checkboxes"
    /\ ck_cell = <<"a", " ", "a">>
    /\ ck_sel = <<"opt2">>

\* the report of a checkbox entry's unmatched tokens
UnmatchedReport(tokens) ==
    [tag |-> "skip checkbox entries not mapped", group |-> "group", field |-> "csv",
     tokens |-> tokens]

\* C13: every token of the split cell ends in exactly one of the two results of
\* checkbox resolution (resolved + unmatched = tokens, the unmatched ones being
\* the tokens with no key), with no value map every token is unmatched, and a
\* non-empty unmatched list of a group on the page is reported with group,
\* field and tokens.
C13_NoTokenDropped ==
    /\ (/\ ck_pc = "ret"
        /\ \/ ck_fn \in {"resolve_checkboxes", "_resolve_checkbox_targets"}
           \/ ck_fn = "fill_checkbox" /\ norm_space(ck_cell) # <<>> /\ ck_page.present)
          => /\ Len(ck_sel) + Len(ck_unmatched) = Len(ck_tokens)
             /\ ck_unmatched = SelectSeq(ck_tokens, LAMBDA t : LooseKeys(ck_map, t) = {})
             /\ ck_map = <<>> => (ck_unmatched = ck_tokens /\ ck_sel = <<>>)
    /\ (/\ ck_pc = "ret"
        /\ ck_fn = "fill_checkbox" /\ norm_space(ck_cell) # <<>> /\ ck_page.present
        /\ ck_unmatched # <<>>)
          => Cardinality({i \in DOMAIN ck_log : ck_log[i] = UnmatchedReport(ck_unmatched)}) = 1

\* a filled checkbox entry with resolved and unmatched tokens, reported
C13_Witness ==
    /\ ck_pc = "ret"
    /\ ck_fn = "fill_checkbox"
    /\ ck_page.present
    /\ Len(ck_sel) = 2
    /\ ck_unmatched = << <<"x">> >>
    /\ \E i \in DOMAIN ck_log : ck_log[i] = UnmatchedReport(ck_unmatched)

\* C14: when a multi-choice cell holds tokens starting with "other" (any
\* case), the options of the other tokens are checked and the text written to
\* the free-text companion is exactly the texts after the prefix, each once,
\* comma-joined: "A; Other: x" split on ";" checks A and writes "x".  (Cells
\* whose other tokens all have a key.)
C14_OtherTokensToCompanion ==
    (/\ ck_pc = "ret" /\ ck_round = 1
     /\ ck_fn = "fill_checkbox"
     /\ norm_space(ck_cell) # <<>>
     /\ ck_page.present /\ ck_page.how = "check" /\ ck_page.otherVisible /\ ck_page.typeOk
     /\ ck_entry.other /\ ck_entry.auto_other
     /\ ExplicitOthers(parse_multi(ck_cell, ck_delim)) # <<>>
     /\ \A j \in 1..Len(parse_multi(ck_cell, ck_delim)) :
           LET t == parse_multi(ck_cell, ck_delim)[j]
           IN  StartsWithOther(t) \/ LooseKeys(ck_map, t) # {})
        => /\ ck_typed = <<JoinComma(Combined(ExplicitOthers(ck_tokens), {}))>>
           /\ \A j \in 1..Len(ck_sel) : ck_sel[j] \in ck_checked

\* C15: a checkbox selection never unchecks an option: filling the same page
\* again with the same row leaves the set of checked options as the first
\* fill left it.
C15_CheckboxFillIdempotent ==
    (ck_pc = "ret" /\ ck_fn \in CkFillFns /\ ck_round >= 2) => ck_checked = ck_first

(***************************************************************************)
(* type_like_human                                                         *)
(***************************************************************************)
\* C16: type_like_human reports success only when the control's final value
\* equals the intended text after whitespace normalization.
C16_SuccessMeansValueSet ==
    (ty_pc = "ret" /\ ty_result) => norm_space(ty_value) = norm_space(ty_text)

\* C17: every call of type_like_human ends with a blur that comes after its
\* last write to the control, also when an interaction step failed, and the
\* control is cleared before the first character is typed.
C17_BlurAfterLastWrite ==
    ty_pc = "ret"
        => LET blurs == {i \in DOMAIN ty_events : ty_events[i] \in {"tab", "mouse"}}
               writes == {i \in DOMAIN ty_events : ty_events[i] \in {"type", "fill"}}
               clears == {i \in DOMAIN ty_events : ty_events[i] = "clear"}
           IN  /\ blurs # {}
               /\ \A w \in writes : \E b \in blurs : b > w
               /\ \A w \in writes : ty_events[w] = "type" => \E c \in clears : c < w

(***************************************************************************)
(* choose_combobox_by_text                                                 *)
(***************************************************************************)
\* C18: choose_combobox_by_text returns success only if the button was
\* verified to show the chosen text, makes at most 3 passes, and reports
\* failure when no pass verified.
C18_ComboSuccessIsVerified ==
    /\ cb_attempt <= ComboAttempts
    /\ (cb_pc \in {"ret", "exhausted"} /\ cb_result) => cb_verified

(***************************************************************************)
(* Page fill                                                               *)
(***************************************************************************)
\* C19: when a primitive fails on a field of a page, the failure is logged and
\* not counted, every field of the page is still attempted, and the page fill
\* returns (the failure does not leave it).
C19_FieldFailureContained ==
    pf_pc \in {"ret", "raised"}
        => /\ pf_pc = "ret"
           /\ pf_attempted = DOMAIN pf_fields
           /\ pf_actions = Cardinality({i \in DOMAIN pf_fields : pf_fields[i].outcome = "ok"})
           /\ \A i \in DOMAIN pf_fields :
                 pf_fields[i].outcome = "error" => \E j \in DOMAIN pf_log : pf_log[j] = i

(***************************************************************************)
(* Classification                                                          *)
(***************************************************************************)
\* the pieces of a pattern can be placed in the heading in order, compared
\* without regard to case
PlacedInOrder(pieces, h) ==
    \E f \in [1..Len(pieces) -> 0..Len(h)] :
        /\ \A k \in 1..Len(pieces) :
              /\ f[k] + Len(pieces[k]) <= Len(h)
              /\ lowerHeading(SubSeq(h, f[k] + 1, f[k] + Len(pieces[k]))) = lowerHeading(pieces[k])
        /\ \A k \in 1..(Len(pieces) - 1) : f[k] + Len(pieces[k]) <= f[k + 1]

MatchingEntries(h) ==
    {i \in 1..Len(QUESTION_MAP) : PlacedInOrder(QUESTION_MAP[i].pattern, h)}

\* C20: classifying a heading gives the type and field of the first entry of
\* QUESTION_MAP, in table order, whose pattern matches it without regard to
\* case, nothing when none matches, and the same answer when it is done again.
C20_FirstMatchWins ==
    /\ qm_pc \in {"once", "twice"}
          => IF MatchingEntries(qm_heading) = {} THEN qm_first = NoMatch
             ELSE LET e == QUESTION_MAP[NthOf(MatchingEntries(qm_heading), 1)]
                  IN  qm_first = [type |-> e.type, csv |-> e.csv]
    /\ qm_pc = "twice" => qm_second = qm_first

\* a heading in another case than the patterns, matched by three entries
C20_Witness ==
    /\ qm_pc = "twice"
    /\ qm_heading = <<"a", "B">>
    /\ Cardinality(MatchingEntries(qm_heading)) >= 3
    /\ qm_first = [type |-> "radio", csv |-> "c1"]
    /\ qm_second = qm_first

\* C21: no interaction primitive dispatches a pointer or keyboard event while
\* a blocking overlay is visible, whatever the time the overlay takes to
\* disappear: the first click of click_selector and of type_like_human is
\* never dispatched under a visible overlay.
C21_NoEventUnderOverlay == ~ov_under

PlSkips == {i \in 1..Len(pl_plan) : pl_plan[i].action = "SKIP"}

\* C22: every action of kind SKIP in a plan returned by build_action_plan
\* carries a non-empty reason, whatever the mapping and the row (text, radio,
\* checkbox and combobox entries alike).
C22_SkipHasReason == \A i \in PlSkips : pl_plan[i].reason # ""

\* a returned plan that skips a text, a radio, a checkbox and a combobox entry
C22_Witness ==
    /\ pl_pc = "ret"
    /\ \A csv \in {"text", "radio", "checkbox", "combobox"} :
          \E i \in PlSkips : pl_plan[i].csv = csv

\* C23: a mapping entry with neither an identifier nor a selector raises a
\* configuration error that leaves the run and stops it: once it was raised no
\* later row is driven, and it is not taken for the failure of one row.
C23_ConfigErrorStopsRun ==
    rn_exit = "config" => \A i \in rn_driven : \E j \in rn_raised : i <= j

\* C24: a timeout of a single wait (the initial navigation or the wait for
\* the survey canvas, the page change after Next) is recovered inside the row:
\* it never becomes an unhandled failure that ends the whole run.
C24_TimeoutStaysInRow == ~(fo_pc = "crashed" /\ fo_exit = "timeout")

\* C25: each row is driven in its own browsing session: the page used while
\* row i is driven was created for row i and for no other row.
C25_OwnSessionPerRow == FoInLoop => fo_browser = {fo_row}

\* C26: for a yes/no single-choice question whose row value is "No" (any
\* case), after the interaction the "No" option (the second one) is selected
\* and the "Yes" option is not, on every page that offers both options as
\* radio inputs, pages whose labels cannot be matched by text included.
C26_NoSelectsNo ==
    ( /\ fp_pc = "ret"
      /\ fp_handler = "proc_radio_yn"
      /\ lower(strip(get(fp_row, "h1"))) = lower(NO)
      /\ fp_page.labels \in { << YES, NO >>, << <<>>, <<>> >> }
      /\ fp_page.inputs )
    => fp_selected = "opt2"

\* C27: for the composite name interaction on a 3-field group, field i
\* receives the value of name column i (an empty column gives an empty field)
\* and each of the three fields is set exactly once while the page is handled;
\* stated for the rows that give a name and the runs where every field was
\* written.
C27_EachNameFieldSetOnce ==
    ( /\ nm_pc = "ret"
      /\ \E i \in 1..3 : strip(nm_cols[i]) # <<>>
      /\ \A i \in 1..3 : nm_fields.sets[i] >= 1 )
    => \A i \in 1..3 : nm_fields.value[i] = strip(nm_cols[i]) /\ nm_fields.sets[i] = 1

\* the options a cell lists: those whose label is one of its tokens
CkListed(parts) ==
    {Opt(i) : i \in {j \in 1..Len(CkLabels) :
                       \E k \in 1..Len(parts) : lower(parts[k]) = lower(CkLabels[j])}}

\* C28: for a multi-choice question whose row value lists options separated
\* by "|", after the interaction exactly the listed options are checked (on a
\* page where none was checked before): each listed option is checked and no
\* other option becomes checked, also when a listed token matches no label.
C28_ExactlyListedChecked ==
    ( /\ ck_pc = "ret"
      /\ ck_fn = "click_checkbox"
      /\ ck_round = 1
      /\ ck_page.boxes
      /\ ck_page.before = {}
      /\ \E k \in 1..Len(ck_cell) : ck_cell[k] = "|" )
    => ck_checked = CkListed(ck_tokens)

\* C29: the row driver ends a row as done only when the survey has ended: a
\* page without question sections that was reached after an advance and still
\* offers an enabled forward control is not taken for the end of the row.
C29_DoneOnlyAtSurveyEnd ==
    (rn_pc = "close" /\ rn_exit = "done") => ~NextOk(rn_page)

\* C30: fill_one stops a row as stuck only if the page really failed to
\* change: when every advance moved to a different page (pages without
\* question sections or with unreadable headings included), the stuck counter
\* does not reach 3 and the row is not aborted as stuck.
C30_StuckOnlyIfPageStayed ==
    (fo_stuck >= StuckLimit \/ (fo_pc = "rowdone" /\ fo_exit = "stuck")) => fo_stayed

\* C31: in fill_one the stuck counter always lies in 0..3 and equals the
\* number of the most recent consecutive iterations whose signature did not
\* change: an iteration whose signature changed resets it to 0.
C31_StuckCounterIsRunLength ==
    /\ fo_stuck \in 0..StuckLimit
    /\ fo_stuck = fo_same

\* the counter was reset by a changed iteration and has counted up again
C31_Witness ==
    /\ fo_pc = "loop"
    /\ fo_step > StuckLimit
    /\ fo_stuck = StuckLimit - 1
    /\ fo_same = StuckLimit - 1

C33_RadioExactThenLoose ==
    (ck_pc = "ret" /\ ck_fn = "resolve_radio_selector") =>
        LET ex == ExactKeys(ck_map, ck_cell)
            lo == LooseKeys(ck_map, ck_cell)
        IN  /\ ck_sel = (IF ck_cell = <<>> THEN <<>>
                         ELSE IF ex # {} THEN <<ck_map[NthOf(ex, 1)].v>>
                         ELSE IF lo # {} THEN <<ck_map[NthOf(lo, 1)].v>>
                         ELSE <<>>)
            /\ \A j \in 1..Len(ck_sel) : \E i \in 1..Len(ck_map) : ck_map[i].v = ck_sel[j]

\* the value is a key itself and an earlier key equals it up to case
C33_Witness ==
    /\ ck_pc = "ret"
    /\ ck_fn = "resolve_radio_selector"
    /\ ck_cell = <<"a">>
    /\ Len(ck_map) = 2
    /\ ck_map[1].k = <<"A">>
    /\ ck_sel = <<"opt2">>

\* C34: the offline planner and the live filler agree: for every checkbox
\* entry and cell, build_action_plan plans a CHECK on exactly the selectors
\* fill_current_page resolves the entry and the cell to, also for a cell of an
\* entry with no configured delimiter.
C34_PlannerAgreesWithFiller ==
    (ck_pc = "ret" /\ ck_fn = "_resolve_checkbox_targets")
        => ck_sel = resolve_checkboxes(ck_map, ck_cell, ck_delim).sel


\* C35: the number returned by fill_current_page for a single-choice entry
\* equals the number of interaction primitives that succeeded during the
\* fill: one for an option that was clicked, one for a text that was typed.
C35_CountEqualsSuccesses ==
    (fp_pc = "ret" /\ fp_handler = "fill_radio")
        => fp_actions = (IF fp_selected # NoOption THEN 1 ELSE 0)
                        + (IF fp_typed # NoText THEN 1 ELSE 0)


\* the wanted text of the searchable list, as the matching compares it
CbWant == lower(norm_space(cb_text))

\* the items whose normalized text equals, resp. contains, the wanted text
CbEqual == {i \in 1..Len(cb_items) : lower(norm_space(cb_items[i])) = CbWant}

CbHolding == {i \in 1..Len(cb_items) : IsSubstr(CbWant, lower(norm_space(cb_items[i])))}

OcTried == {oc_tried[i] : i \in DOMAIN oc_tried}

\* C37: open_combobox makes at most 3 open attempts, returns success only
\* after the menu was observed open, and reports failure only after the
\* direct open, once it was called, was followed by focus+activate and by
\* the open-event dispatch.
C37_AllMethodsBeforeFailure ==
    /\ oc_attempt <= ComboAttempts
    /\ (oc_pc = "ret" /\ oc_result) => oc_seen
    /\ (oc_pc = "ret" /\ ~oc_result /\ "click" \in OcTried)
            => OcTried = {"click", "focus", "dispatch"}


\* C38: no heading is matched by two entries of QUESTION_MAP; checked for
\* the entries that cannot be told apart by any heading, those that carry
\* the same pattern, of which the later one can never be returned.
C38_NoEntryShadowed ==
    qm_pc \in {"once", "twice"}
        => \A i, j \in MatchingEntries(qm_heading) :
              i < j => QUESTION_MAP[i].pattern # QUESTION_MAP[j].pattern


\* the run was asked for one row: neither all rows nor a range was requested
RsSingle ==
    /\ ~rs_opts.all
    /\ IF rs_variant = "main" THEN rs_opts.start = {} ELSE rs_opts.row_index # {}

\* the run was asked for a range whose start lies after its end
RsBackwardRange ==
    /\ ~rs_opts.all
    /\ rs_variant = "main_auto_fill" => rs_opts.row_index = {}
    /\ rs_opts.start # {} /\ rs_opts.end # {}
    /\ Given(rs_opts.end) >= 0
    /\ Given(rs_opts.start) > Given(rs_opts.end)

\* C39: the row indices run() drives are valid indices of the rows, in
\* strictly increasing order; a single index out of range, and a range whose
\* start lies after its end, drive no row and report an error.
C39_RowIndicesValid ==
    rs_pc \in {"drive", "raised", "ret"}
        => /\ \A i \in DOMAIN rs_indices : rs_indices[i] \in 0..(rs_n - 1)
           /\ \A i, j \in DOMAIN rs_indices : i < j => rs_indices[i] < rs_indices[j]
           /\ \A i \in DOMAIN rs_driven : rs_driven[i] = rs_indices[i]
           /\ (RsSingle /\ Given(rs_opts.row_index) \notin 0..(rs_n - 1))
                 => (rs_indices = <<>> /\ rs_error)
           /\ RsBackwardRange => (rs_indices = <<>> /\ rs_error)

====
